---- MODULE Spec2Model ----
(***************************************************************************)
(* A model of the celsp language server's analysis core: the escape-aware  *)
(* offset mapper (document/region.rs), the protovalidate region extractor  *)
(* (protovalidate/proto_parser.rs) and the line index (document/text.rs).  *)
(*                                                                         *)
(* A Rust String is a sequence of chars (code points); its bytes are the   *)
(* UTF-8 encoding of those chars and len() counts bytes.  Byte offsets are *)
(* 0-based as in the source: byte i of a text b is b[i + 1].               *)
(***************************************************************************)
EXTENDS Integers, Sequences, FiniteSets, TLC

VARIABLES host, regions, op, arg, ret, walk, index,
          documents, heap, published, reader, sent

\* One document under analysis: its text, its regions, the call in progress.
doc_vars == <<host, regions, op, arg, ret, walk, index>>

\* The server: the document store, the states it shares, the notifications sent to
\* the editor, a request holding a state, and the messages the editor has sent.
store_vars == <<documents, heap, published, reader, sent>>

vars == <<host, regions, op, arg, ret, walk, index,
          documents, heap, published, reader, sent>>

\* Option::None of an Option<usize>.
None == -1

\* The documents of the workspace, by the path of their URI: a.cel and b.proto.
Uris == {<<97, 46, 99, 101, 108>>, <<98, 46, 112, 114, 111, 116, 111>>}

\* Backend::new: an empty store, nothing published, no request in progress.
StoreInit ==
    /\ documents = [u \in Uris |-> None]
    /\ heap = <<>>
    /\ published = <<>>
    /\ reader = [status |-> "idle"]
    /\ sent = <<>>

-----------------------------------------------------------------------------
(* Strings: chars, UTF-8 bytes, lengths.                                   *)

len_utf8(ch) ==
    IF ch < 128 THEN 1 ELSE IF ch < 2048 THEN 2 ELSE IF ch < 65536 THEN 3 ELSE 4

len_utf16(ch) == IF ch < 65536 THEN 1 ELSE 2

encode_utf8(ch) ==
    IF ch < 128 THEN <<ch>>
    ELSE IF ch < 2048 THEN <<192 + (ch \div 64), 128 + (ch % 64)>>
    ELSE IF ch < 65536 THEN
        <<224 + (ch \div 4096), 128 + ((ch \div 64) % 64), 128 + (ch % 64)>>
    ELSE <<240 + (ch \div 262144), 128 + ((ch \div 4096) % 64),
           128 + ((ch \div 64) % 64), 128 + (ch % 64)>>

\* The UTF-8 bytes of chars lo..hi of s (halving keeps the evaluation shallow).
RECURSIVE BytesOf(_, _, _)
BytesOf(s, lo, hi) ==
    IF lo > hi THEN <<>>
    ELSE IF lo = hi THEN encode_utf8(s[lo])
    ELSE LET mid == (lo + hi) \div 2
         IN  BytesOf(s, lo, mid) \o BytesOf(s, mid + 1, hi)

\* str::as_bytes.
as_bytes(s) == BytesOf(s, 1, Len(s))

RECURSIVE LenOf(_, _, _)
LenOf(s, lo, hi) ==
    IF lo > hi THEN 0
    ELSE IF lo = hi THEN len_utf8(s[lo])
    ELSE LET mid == (lo + hi) \div 2
         IN  LenOf(s, lo, mid) + LenOf(s, mid + 1, hi)

\* str::len: the length in bytes.
StrLen(s) == LenOf(s, 1, Len(s))

Min(S) == CHOOSE x \in S : \A y \in S : x <= y

Max(S) == CHOOSE x \in S : \A y \in S : x >= y

\* bytes[i] of a byte slice, 0-based.
At(bytes, i) == bytes[i + 1]

-----------------------------------------------------------------------------
(* LineIndex (document/text.rs).  A position is <<line, character>>.       *)

\* The byte offset at which char k of s starts (k = Len(s) + 1: the end of s).
CharStart(s, k) == LenOf(s, 1, k - 1)

\* The loop of LineIndex::new over chars lo..hi of s: the offset after every line
\* feed, in order (halving keeps the evaluation shallow).
RECURSIVE LineStartsIn(_, _, _)
LineStartsIn(s, lo, hi) ==
    IF lo > hi THEN <<>>
    ELSE IF lo = hi THEN (IF s[lo] = 10 THEN <<CharStart(s, lo) + 1>> ELSE <<>>)
    ELSE LET mid == (lo + hi) \div 2
         IN  LineStartsIn(s, lo, mid) \o LineStartsIn(s, mid + 1, hi)

LineIndexNew(source) ==
    [line_starts |-> <<0>> \o LineStartsIn(source, 1, Len(source)), source |-> source]

\* line_starts[line], 0-based.
LineStart(idx, line) == idx.line_starts[line + 1]

\* slice::binary_search on the strictly increasing line_starts, then the match of
\* offset_to_position: the index found, else the insertion index less one
\* (saturating).
LineOfOffset(idx, offset) ==
    LET found == {i \in 0..(Len(idx.line_starts) - 1) : LineStart(idx, i) = offset}
        insert == Cardinality({i \in 0..(Len(idx.line_starts) - 1) :
                                 LineStart(idx, i) < offset})
    IN  IF found # {} THEN CHOOSE i \in found : TRUE
        ELSE IF insert = 0 THEN 0 ELSE insert - 1

\* The chars of the byte slice [from .. to) of s, as indices into s.
CharsIn(s, from, to) == {k \in 1..Len(s) : from <= CharStart(s, k) /\ CharStart(s, k) < to}

\* The UTF-16 units of the chars lo..hi of s.
RECURSIVE Utf16Len(_, _, _)
Utf16Len(s, lo, hi) ==
    IF lo > hi THEN 0
    ELSE IF lo = hi THEN len_utf16(s[lo])
    ELSE LET mid == (lo + hi) \div 2
         IN  Utf16Len(s, lo, mid) + Utf16Len(s, mid + 1, hi)

\* The column loop of offset_to_position over the chars k.. of the line slice.
\* Sixteen iterations are taken at once where the sixteenth char still starts
\* before the offset (that keeps the evaluation shallow).
RECURSIVE ColumnLoop(_, _, _, _, _)
ColumnLoop(s, k, chars, offset, col) ==
    IF k \notin chars THEN col
    ELSE IF CharStart(s, k) >= offset THEN col
    ELSE IF k + 15 \in chars /\ CharStart(s, k + 15) < offset
    THEN ColumnLoop(s, k + 16, chars, offset, col + Utf16Len(s, k, k + 15))
    ELSE ColumnLoop(s, k + 1, chars, offset, col + len_utf16(s[k]))

\* offset_to_position with the column counted in bytes.
offset_to_position_bytes(idx, offset) ==
    LET line == LineOfOffset(idx, offset)
    IN  <<line, offset - LineStart(idx, line)>>

offset_to_position(idx, offset) ==
    LET line == LineOfOffset(idx, offset)
        line_start == LineStart(idx, line)
        line_end == IF line + 1 < Len(idx.line_starts) THEN LineStart(idx, line + 1)
                    ELSE StrLen(idx.source)
        chars == CharsIn(idx.source, line_start, line_end)
    IN  <<line, IF chars = {} THEN 0
                ELSE ColumnLoop(idx.source, Min(chars), chars, offset, 0)>>

\* The walk of position_to_offset over the chars k.. of the line slice: the offset
\* of the first char at which the column is reached, or None at the end.
\* Sixteen iterations are taken at once where the column is not reached before
\* the sixteenth char.
RECURSIVE Utf16Loop(_, _, _, _, _)
Utf16Loop(s, k, chars, character, utf16_col) ==
    IF k \notin chars THEN None
    ELSE IF utf16_col >= character THEN CharStart(s, k)
    ELSE IF k + 15 \in chars /\ utf16_col + Utf16Len(s, k, k + 14) < character
    THEN Utf16Loop(s, k + 16, chars, character, utf16_col + Utf16Len(s, k, k + 15))
    ELSE Utf16Loop(s, k + 1, chars, character, utf16_col + len_utf16(s[k]))

\* position_to_offset with the line feed left in the line slice.
position_to_offset_newline(idx, position) ==
    LET line == position[1]
    IN  IF line >= Len(idx.line_starts) THEN None
        ELSE LET line_start == LineStart(idx, line)
                 line_end == IF line + 1 < Len(idx.line_starts)
                             THEN LineStart(idx, line + 1)
                             ELSE StrLen(idx.source)
                 chars == CharsIn(idx.source, line_start, line_end)
                 walked == IF chars = {} THEN None
                           ELSE Utf16Loop(idx.source, Min(chars), chars, position[2], 0)
             IN  IF walked # None THEN walked
                 ELSE IF line_end < StrLen(idx.source) THEN line_end
                 ELSE StrLen(idx.source)

position_to_offset(idx, position) ==
    LET line == position[1]
    IN  IF line >= Len(idx.line_starts) THEN None
        ELSE LET line_start == LineStart(idx, line)
                 line_end == IF line + 1 < Len(idx.line_starts)
                             THEN (IF LineStart(idx, line + 1) = 0 THEN 0
                                   ELSE LineStart(idx, line + 1) - 1)
                             ELSE StrLen(idx.source)
                 chars == CharsIn(idx.source, line_start, line_end)
                 walked == IF chars = {} THEN None
                           ELSE Utf16Loop(idx.source, Min(chars), chars, position[2], 0)
             IN  IF walked # None THEN walked
                 ELSE IF line_end < StrLen(idx.source) THEN line_end
                 ELSE StrLen(idx.source)

span_to_range(idx, span) ==
    <<offset_to_position(idx, span[1]), offset_to_position(idx, span[2])>>

-----------------------------------------------------------------------------
(* OffsetMapper and CelRegionState (document/region.rs).                   *)

RECURSIVE AdjustmentLoop(_, _, _, _)
AdjustmentLoop(adjs, i, cel_offset, adjustment) ==
    IF i > Len(adjs) THEN adjustment
    ELSE IF cel_offset >= adjs[i][1]
         THEN AdjustmentLoop(adjs, i + 1, cel_offset, adjs[i][2])
         ELSE adjustment

get_adjustment_at(mapper, cel_offset) ==
    AdjustmentLoop(mapper.escape_adjustments, 1, cel_offset, 0)

\* to_host with the adjustment subtracted instead of added.
to_host_minus(mapper, cel_offset) ==
    mapper.host_offset + cel_offset - get_adjustment_at(mapper, cel_offset)

to_host(mapper, cel_offset) ==
    mapper.host_offset + cel_offset + get_adjustment_at(mapper, cel_offset)

span_to_host(mapper, span) == <<to_host(mapper, span[1]), to_host(mapper, span[2])>>

host_length(mapper, cel_length) == cel_length + get_adjustment_at(mapper, cel_length)

\* contains_host_offset with an exclusive end bound.
contains_host_offset_exclusive(r, host_offset) ==
    LET start == r.mapper.host_offset
        end   == start + host_length(r.mapper, StrLen(r.region.source))
    IN  host_offset >= start /\ host_offset < end

contains_host_offset(r, host_offset) ==
    LET start == r.mapper.host_offset
        end   == start + host_length(r.mapper, StrLen(r.region.source))
    IN  host_offset >= start /\ host_offset <= end

\* The for loop of host_to_cel_offset: one cel_offset step per adjustment entry.
RECURSIVE HostToCelFor(_, _, _, _, _)
HostToCelFor(adjs, i, cel_offset, adjustment, relative_host) ==
    IF i > Len(adjs) THEN <<cel_offset, adjustment>>
    ELSE IF cel_offset + adjustment >= relative_host THEN <<cel_offset, adjustment>>
    ELSE HostToCelFor(adjs, i + 1, cel_offset + 1,
                      IF cel_offset >= adjs[i][1] THEN adjs[i][2] ELSE adjustment,
                      relative_host)

\* The while loop of host_to_cel_offset.
RECURSIVE HostToCelWhile(_, _, _, _, _)
HostToCelWhile(mapper, cel_offset, adjustment, relative_host, source_len) ==
    IF cel_offset + adjustment < relative_host /\ cel_offset < source_len
    THEN HostToCelWhile(mapper, cel_offset + 1,
                        get_adjustment_at(mapper, cel_offset + 1),
                        relative_host, source_len)
    ELSE cel_offset

host_to_cel_offset(r, host_offset) ==
    IF ~contains_host_offset(r, host_offset) THEN None
    ELSE IF r.mapper.escape_adjustments = <<>>
         THEN host_offset - r.mapper.host_offset
    ELSE LET relative_host == host_offset - r.mapper.host_offset
             after == HostToCelFor(r.mapper.escape_adjustments, 1, 0, 0, relative_host)
         IN  HostToCelWhile(r.mapper, after[1], after[2], relative_host,
                            StrLen(r.region.source))

-----------------------------------------------------------------------------
(* The host extractor (protovalidate/proto_parser.rs).                     *)

\* The ASCII part of the regex class \s.
IsSpace(b) == b \in {9, 10, 11, 12, 13, 32}

RECURSIVE SkipSpace(_, _)
SkipSpace(bytes, p) ==
    IF p < Len(bytes) /\ IsSpace(At(bytes, p)) THEN SkipSpace(bytes, p + 1) ELSE p

\* Does the literal lit occur in bytes at offset p?
LitAt(bytes, p, lit) ==
    /\ p + Len(lit) <= Len(bytes)
    /\ \A k \in 1..Len(lit) : bytes[p + k] = lit[k]

\* Match lits[i], \s*, lits[i+1], \s*, ... at offset p; the end offset of the
\* match, or None.  trailing: the pattern also ends in \s*.
RECURSIVE MatchLits(_, _, _, _, _)
MatchLits(bytes, p, lits, i, trailing) ==
    IF ~LitAt(bytes, p, lits[i]) THEN None
    ELSE LET e == p + Len(lits[i])
         IN  IF i = Len(lits)
             THEN (IF trailing THEN SkipSpace(bytes, e) ELSE e)
             ELSE MatchLits(bytes, SkipSpace(bytes, e), lits, i + 1, trailing)

\* The offsets from p on at which the pattern matches.
MatchStarts(bytes, p, lits, trailing) ==
    {q \in p..(Len(bytes) - 1) : MatchLits(bytes, q, lits, 1, trailing) # None}

\* Regex::find: the leftmost match from offset p on as <<start, end>>, or <<>>.
Find(bytes, p, lits, trailing) ==
    LET starts == MatchStarts(bytes, p, lits, trailing)
    IN  IF starts = {} THEN <<>>
        ELSE <<Min(starts), MatchLits(bytes, Min(starts), lits, 1, trailing)>>

\* Regex::find_iter: the leftmost non-overlapping matches from offset p on.
RECURSIVE FindIter(_, _, _, _)
FindIter(bytes, p, lits, trailing) ==
    LET mat == Find(bytes, p, lits, trailing)
    IN  IF mat = <<>> THEN <<>>
        ELSE <<mat>> \o FindIter(bytes, mat[2], lits, trailing)

\* \(\s*buf\.validate\.<kind>\s*\)\s*\.cel\s*=\s*\{
OptionPattern(name) == << <<40>>, name, <<41>>, <<46, 99, 101, 108>>, <<61>>, <<123>> >>

PROTOVALIDATE_PATTERNS ==
    << [lits |-> OptionPattern(<<98, 117, 102, 46, 118, 97, 108, 105, 100, 97, 116,
                                 101, 46, 102, 105, 101, 108, 100>>),
        context_type |-> "Field"],
       [lits |-> OptionPattern(<<98, 117, 102, 46, 118, 97, 108, 105, 100, 97, 116,
                                 101, 46, 109, 101, 115, 115, 97, 103, 101>>),
        context_type |-> "Message"],
       [lits |-> OptionPattern(<<98, 117, 102, 46, 118, 97, 108, 105, 100, 97, 116,
                                 101, 46, 112, 114, 101, 100, 101, 102, 105, 110,
                                 101, 100>>),
        context_type |-> "Predefined"] >>

\* expression\s*:\s*
EXPRESSION_PATTERN == << <<101, 120, 112, 114, 101, 115, 115, 105, 111, 110>>, <<58>> >>

\* find_comment_ranges: the scan from pos on; ranges are <<start, end>>, half-open.
BlockCommentEnd(bytes, pos) ==
    LET ends == {i \in pos..(Len(bytes) - 2) : At(bytes, i) = 42 /\ At(bytes, i + 1) = 47}
    IN  IF ends # {} THEN Min(ends) + 2
        ELSE IF pos + 1 < Len(bytes) THEN Len(bytes) - 1
        ELSE pos

LineCommentEnd(bytes, pos) ==
    LET ends == {i \in pos..(Len(bytes) - 1) : At(bytes, i) = 10}
    IN  IF ends # {} THEN Min(ends)
        ELSE IF pos < Len(bytes) THEN Len(bytes)
        ELSE pos

\* CommentStep without the string tracking: a quote is an ordinary byte.
CommentStepNoString(bytes, s) ==
    LET c == At(bytes, s.pos)
        next == [s EXCEPT !.pos = @ + 1]
    IN  IF c = 47 /\ s.pos + 1 < Len(bytes) /\ At(bytes, s.pos + 1) = 47
        THEN LET e == LineCommentEnd(bytes, s.pos + 2)
             IN  [s EXCEPT !.pos = e, !.ranges = Append(@, <<s.pos, e>>)]
        ELSE IF c = 47 /\ s.pos + 1 < Len(bytes) /\ At(bytes, s.pos + 1) = 42
             THEN LET e == BlockCommentEnd(bytes, s.pos + 2)
                  IN  [s EXCEPT !.pos = e, !.ranges = Append(@, <<s.pos, e>>)]
        ELSE next

\* One iteration of the outer while loop of find_comment_ranges.
CommentStep(bytes, s) ==
    LET c == At(bytes, s.pos)
        next == [s EXCEPT !.pos = @ + 1]
    IN  IF s.escape_next THEN [next EXCEPT !.escape_next = FALSE]
        ELSE IF s.in_string
             THEN (IF c = 92 THEN [next EXCEPT !.escape_next = TRUE]
                   ELSE IF c = 34 THEN [next EXCEPT !.in_string = FALSE]
                   ELSE next)
        ELSE IF c = 34 THEN [next EXCEPT !.in_string = TRUE]
        ELSE IF c = 47 /\ s.pos + 1 < Len(bytes) /\ At(bytes, s.pos + 1) = 47
             THEN LET e == LineCommentEnd(bytes, s.pos + 2)
                  IN  [s EXCEPT !.pos = e, !.ranges = Append(@, <<s.pos, e>>)]
        ELSE IF c = 47 /\ s.pos + 1 < Len(bytes) /\ At(bytes, s.pos + 1) = 42
             THEN LET e == BlockCommentEnd(bytes, s.pos + 2)
                  IN  [s EXCEPT !.pos = e, !.ranges = Append(@, <<s.pos, e>>)]
        ELSE next

\* The offset the loop of find_comment_ranges reaches by iterations that only
\* advance pos: the next quote or slash outside a string, the next backslash or
\* quote inside one.
CommentSkip(bytes, s) ==
    IF s.escape_next THEN s.pos
    ELSE LET stops == {i \in s.pos..(Len(bytes) - 1) :
                          At(bytes, i) \in (IF s.in_string THEN {92, 34} ELSE {34, 47})}
         IN  IF stops = {} THEN Len(bytes) ELSE Min(stops)

RECURSIVE CommentScan(_, _)
CommentScan(bytes, s) ==
    LET at == [s EXCEPT !.pos = CommentSkip(bytes, s)]
    IN  IF at.pos < Len(bytes) THEN CommentScan(bytes, CommentStep(bytes, at))
        ELSE s.ranges

find_comment_ranges(bytes) ==
    CommentScan(bytes, [pos |-> 0, in_string |-> FALSE, escape_next |-> FALSE,
                        ranges |-> <<>>])

is_in_comment(offset, comment_ranges) ==
    \E k \in 1..Len(comment_ranges) :
        comment_ranges[k][1] <= offset /\ offset < comment_ranges[k][2]

\* BraceStep without escape_next: a backslash inside a string is an ordinary byte.
BraceStepNoEscape(bytes, s) ==
    LET c == At(bytes, s.pos)
        next == [s EXCEPT !.pos = @ + 1]
    IN  IF c = 34 THEN [next EXCEPT !.in_string = ~s.in_string]
        ELSE IF ~s.in_string /\ c = 123 THEN [next EXCEPT !.depth = @ + 1]
        ELSE IF ~s.in_string /\ c = 125 THEN [next EXCEPT !.depth = @ - 1]
        ELSE next

\* One iteration of the while loop of find_matching_brace.
BraceStep(bytes, s) ==
    LET c == At(bytes, s.pos)
        next == [s EXCEPT !.pos = @ + 1]
    IN  IF s.escape_next THEN [next EXCEPT !.escape_next = FALSE]
        ELSE IF c = 92 /\ s.in_string THEN [next EXCEPT !.escape_next = TRUE]
        ELSE IF c = 34 THEN [next EXCEPT !.in_string = ~s.in_string]
        ELSE IF ~s.in_string /\ c = 123 THEN [next EXCEPT !.depth = @ + 1]
        ELSE IF ~s.in_string /\ c = 125 THEN [next EXCEPT !.depth = @ - 1]
        ELSE next

\* The offset the loop of find_matching_brace reaches by iterations that only
\* advance pos: the next backslash, quote or brace.
BraceSkip(bytes, s) ==
    IF s.escape_next \/ s.depth = 0 THEN s.pos
    ELSE LET stops == {i \in s.pos..(Len(bytes) - 1) :
                          At(bytes, i) \in {92, 34, 123, 125}}
         IN  IF stops = {} THEN Len(bytes) ELSE Min(stops)

RECURSIVE BraceScan(_, _)
BraceScan(bytes, s) ==
    LET at == [s EXCEPT !.pos = BraceSkip(bytes, s)]
    IN  IF at.pos < Len(bytes) /\ at.depth > 0 THEN BraceScan(bytes, BraceStep(bytes, at))
        ELSE IF at.depth = 0 THEN at.pos - 1
        ELSE None

find_matching_brace(bytes, open_pos) ==
    IF open_pos >= Len(bytes) \/ At(bytes, open_pos) # 123 THEN None
    ELSE BraceScan(bytes, [pos |-> open_pos + 1, depth |-> 1, in_string |-> FALSE,
                           escape_next |-> FALSE])

\* The character an escape \x decodes to.
EscapedChar(escaped) ==
    CASE escaped = 110 -> 10
      [] escaped = 116 -> 9
      [] escaped = 114 -> 13
      [] escaped = 92  -> 92
      [] escaped = 34  -> 34
      [] escaped = 39  -> 39
      [] escaped = 48  -> 0
      [] OTHER         -> escaped

\* No walk of a string literal is in progress.
NoWalk == [status |-> "idle"]

\* The state of extract_string_literal's walk after its setup.
WalkStart(start) ==
    [pos |-> start + 1, content |-> <<>>, escape_adjustments |-> <<>>,
     cumulative_adjustment |-> 0, status |-> "walking"]

\* WalkStep recording an escape at the length before the decoded char is appended.
WalkStepBeforeAppend(bytes, w) ==
    IF ~(w.pos < Len(bytes)) THEN [w EXCEPT !.status = "unclosed"]
    ELSE LET c == At(bytes, w.pos)
         IN  IF c = 34 THEN [w EXCEPT !.status = "closed"]
             ELSE IF c = 92 /\ w.pos + 1 < Len(bytes)
                  THEN LET cumulative == w.cumulative_adjustment + 1
                       IN  [w EXCEPT !.content = Append(@, EscapedChar(At(bytes, w.pos + 1))),
                                     !.cumulative_adjustment = cumulative,
                                     !.escape_adjustments =
                                         Append(@, <<StrLen(w.content), cumulative>>),
                                     !.pos = @ + 2]
             ELSE [w EXCEPT !.content = Append(@, c), !.pos = @ + 1]

\* One iteration of the while loop of extract_string_literal.
WalkStep(bytes, w) ==
    IF ~(w.pos < Len(bytes)) THEN [w EXCEPT !.status = "unclosed"]
    ELSE LET c == At(bytes, w.pos)
         IN  IF c = 34 THEN [w EXCEPT !.status = "closed"]
             ELSE IF c = 92 /\ w.pos + 1 < Len(bytes)
                  THEN LET content == Append(w.content, EscapedChar(At(bytes, w.pos + 1)))
                           cumulative == w.cumulative_adjustment + 1
                       IN  [w EXCEPT !.content = content,
                                     !.cumulative_adjustment = cumulative,
                                     !.escape_adjustments =
                                         Append(@, <<StrLen(content), cumulative>>),
                                     !.pos = @ + 2]
             ELSE [w EXCEPT !.content = Append(@, c), !.pos = @ + 1]

RECURSIVE WalkLoop(_, _)
WalkLoop(bytes, w) ==
    IF w.status = "walking" THEN WalkLoop(bytes, WalkStep(bytes, w)) ELSE w

\* extract_string_literal with host_offset left on the opening quote.
extract_string_literal_at_quote(bytes, start, context) ==
    IF start >= Len(bytes) THEN <<>>
    ELSE IF At(bytes, start) # 34 THEN <<>>
    ELSE LET w == WalkLoop(bytes, WalkStart(start))
         IN  IF w.status = "closed"
             THEN << [source |-> w.content, host_offset |-> start,
                      escape_adjustments |-> w.escape_adjustments,
                      context |-> context] >>
             ELSE <<>>

\* extract_string_literal: <<region>> or <<>> (None).
extract_string_literal(bytes, start, context) ==
    IF start >= Len(bytes) THEN <<>>
    ELSE IF At(bytes, start) # 34 THEN <<>>
    ELSE LET w == WalkLoop(bytes, WalkStart(start))
         IN  IF w.status = "closed"
             THEN << [source |-> w.content, host_offset |-> start + 1,
                      escape_adjustments |-> w.escape_adjustments,
                      context |-> context] >>
             ELSE <<>>

\* The inner loop of extract_cel_regions for one match, up to the call of
\* extract_string_literal: expr_start_in_source, or None when the match is skipped.
LiteralStart(bytes, mat, comment_ranges) ==
    IF is_in_comment(mat[1], comment_ranges) THEN None
    ELSE LET block_end == find_matching_brace(bytes, mat[2] - 1)
         IN  IF block_end = None THEN None
             ELSE LET block == SubSeq(bytes, mat[2] + 1, block_end)
                      expr_match == Find(block, 0, EXPRESSION_PATTERN, TRUE)
                  IN  IF expr_match = <<>> THEN None ELSE mat[2] + expr_match[2]

\* The body of the inner loop of extract_cel_regions for one match.
RegionOfMatch(bytes, mat, context_type, comment_ranges) ==
    LET expr_start_in_source == LiteralStart(bytes, mat, comment_ranges)
    IN  IF expr_start_in_source = None THEN <<>>
        ELSE extract_string_literal(bytes, expr_start_in_source, context_type)

RECURSIVE RegionsOfMatches(_, _, _, _, _)
RegionsOfMatches(bytes, matches, k, context_type, comment_ranges) ==
    IF k > Len(matches) THEN <<>>
    ELSE RegionOfMatch(bytes, matches[k], context_type, comment_ranges)
         \o RegionsOfMatches(bytes, matches, k + 1, context_type, comment_ranges)

RECURSIVE RegionsOfPatterns(_, _, _)
RegionsOfPatterns(bytes, i, comment_ranges) ==
    IF i > Len(PROTOVALIDATE_PATTERNS) THEN <<>>
    ELSE RegionsOfMatches(bytes, FindIter(bytes, 0, PROTOVALIDATE_PATTERNS[i].lits, FALSE),
                          1, PROTOVALIDATE_PATTERNS[i].context_type, comment_ranges)
         \o RegionsOfPatterns(bytes, i + 1, comment_ranges)

extract_cel_regions(source) ==
    LET bytes == as_bytes(source)
    IN  RegionsOfPatterns(bytes, 1, find_comment_ranges(bytes))

\* ExtractedRegion::into_region_and_mapper, kept with the region's context.
into_region_and_mapper(ext) ==
    [region  |-> [source |-> ext.source],
     mapper  |-> [host_offset |-> ext.host_offset,
                  escape_adjustments |-> ext.escape_adjustments],
     context |-> ext.context]

RECURSIVE MapRegions(_)
MapRegions(extracted) ==
    IF extracted = <<>> THEN <<>>
    ELSE <<into_region_and_mapper(Head(extracted))>> \o MapRegions(Tail(extracted))

\* The regions of ProtoDocumentState::new.
ProtoRegions(source) == MapRegions(extract_cel_regions(source))

-----------------------------------------------------------------------------
(* Host texts.                                                             *)

\* Longest literal body, in chars.
MaxLit == 4

\* n, backslash, double quote, e-acute (two UTF-8 bytes).
LitAlphabet == {110, 92, 34, 233}

\* (buf.validate.field).cel={expression:"
LitPrefix ==
    <<40, 98, 117, 102, 46, 118, 97, 108, 105, 100, 97, 116, 101, 46, 102, 105, 101,
      108, 100, 41, 46, 99, 101, 108, 61, 123, 101, 120, 112, 114, 101, 115, 115, 105,
      111, 110, 58, 34>>

\* "}
LitSuffix == <<34, 125>>

LitBodies == UNION {[1..n -> LitAlphabet] : n \in 0..MaxLit}

LitHosts == {LitPrefix \o b \o LitSuffix : b \in LitBodies}

\* The field annotation of the test handles_escaped_quotes:
\* (buf.validate.field).cel = { expression: "this.contains(\"hello\")" }
EscapedQuotesHost ==
    <<40, 98, 117, 102, 46, 118, 97, 108, 105, 100, 97, 116, 101, 46, 102, 105, 101,
      108, 100, 41, 46, 99, 101, 108, 32, 61, 32, 123, 32, 101, 120, 112, 114, 101, 115,
      115, 105, 111, 110, 58, 32, 34, 116, 104, 105, 115, 46, 99, 111, 110, 116, 97, 105,
      110, 115, 40, 92, 34, 104, 101, 108, 108, 111, 92, 34, 41, 34, 32, 125>>

\* Most annotation fragments in a fragment host.
MaxFrags == 3

\* Closed field and message annotations, an open predefined annotation, a brace.
Fragments ==
    { \* (buf.validate.field).cel={expression:"n"}
    <<40, 98, 117, 102, 46, 118, 97, 108, 105, 100, 97, 116, 101, 46, 102, 105, 101,
      108, 100, 41, 46, 99, 101, 108, 61, 123, 101, 120, 112, 114, 101, 115, 115, 105,
      111, 110, 58, 34, 110, 34, 125>>,
      \* (buf.validate.message).cel={expression:"\n"}
    <<40, 98, 117, 102, 46, 118, 97, 108, 105, 100, 97, 116, 101, 46, 109, 101, 115,
      115, 97, 103, 101, 41, 46, 99, 101, 108, 61, 123, 101, 120, 112, 114, 101, 115, 115,
      105, 111, 110, 58, 34, 92, 110, 34, 125>>,
      \* (buf.validate.predefined).cel={
    <<40, 98, 117, 102, 46, 118, 97, 108, 105, 100, 97, 116, 101, 46, 112, 114, 101,
      100, 101, 102, 105, 110, 101, 100, 41, 46, 99, 101, 108, 61, 123>>,
      \* }
      <<125>> }

RECURSIVE Concat(_, _)
Concat(seqs, k) == IF k > Len(seqs) THEN <<>> ELSE seqs[k] \o Concat(seqs, k + 1)

FragHosts == {Concat(fs, 1) : fs \in UNION {[1..n -> Fragments] : n \in 0..MaxFrags}}

\* One literal per escape the decoder names, and one it does not: \t \r \' \0 \x.
EscapeHosts == {LitPrefix \o <<92, x>> \o LitSuffix : x \in {116, 114, 39, 48, 120}}

Hosts == LitHosts \cup EscapeHosts \cup FragHosts \cup {EscapedQuotesHost}

-----------------------------------------------------------------------------
(* The state machine: a host document is opened (its regions extracted),   *)
(* then the mapper is queried.                                             *)

Init ==
    /\ host \in Hosts
    /\ regions = <<>>
    /\ op = "new"
    /\ arg = <<>>
    /\ ret = None
    /\ walk = NoWalk
    /\ index = LineIndexNew(host)
    /\ StoreInit

\* ProtoDocumentState::new: extract the regions of the host text.
Extract ==
    /\ op = "new"
    /\ regions' = ProtoRegions(host)
    /\ op' = "extract_cel_regions"
    /\ UNCHANGED <<host, arg, ret, walk, index>>
    /\ UNCHANGED store_vars

\* The document is open and no query is waiting for its caller.
Ready == op \in {"extract_cel_regions", "return"}

Opened == op # "new"

\* Offsets a query may ask about: the whole host text and one byte beyond.
HostOffsets == 0..(StrLen(host) + 1)

ToHost ==
    /\ Ready
    /\ \E i \in 1..Len(regions) : \E c \in 0..(StrLen(regions[i].region.source) + 1) :
        /\ op' = "to_host"
        /\ arg' = <<i, c>>
        /\ ret' = to_host(regions[i].mapper, c)
    /\ UNCHANGED <<host, regions, walk, index>>
    /\ UNCHANGED store_vars

ContainsHostOffset ==
    /\ Ready
    /\ \E i \in 1..Len(regions) : \E h \in HostOffsets :
        /\ op' = "contains_host_offset"
        /\ arg' = <<i, h>>
        /\ ret' = contains_host_offset(regions[i], h)
    /\ UNCHANGED <<host, regions, walk, index>>
    /\ UNCHANGED store_vars

HostToCelOffset ==
    /\ Ready
    /\ \E i \in 1..Len(regions) : \E h \in HostOffsets :
        /\ op' = "host_to_cel_offset"
        /\ arg' = <<i, h>>
        /\ ret' = host_to_cel_offset(regions[i], h)
    /\ UNCHANGED <<host, regions, walk, index>>
    /\ UNCHANGED store_vars

\* The caller takes the result of a query.
Return ==
    /\ op \in {"to_host", "contains_host_offset", "host_to_cel_offset"}
    /\ op' = "return"
    /\ arg' = <<>>
    /\ ret' = None
    /\ UNCHANGED <<host, regions, walk, index>>
    /\ UNCHANGED store_vars

Next == Extract \/ ToHost \/ ContainsHostOffset \/ HostToCelOffset \/ Return

Spec == Init /\ [][Next]_vars

-----------------------------------------------------------------------------
(* The walk of extract_string_literal, one loop iteration per step.        *)

\* The starts extract_cel_regions hands to extract_string_literal.
LiteralStarts(bytes) ==
    LET comment_ranges == find_comment_ranges(bytes)
        StartsOf(mats) ==
            {LiteralStart(bytes, mats[k], comment_ranges) : k \in 1..Len(mats)}
    IN  UNION {StartsOf(FindIter(bytes, 0, PROTOVALIDATE_PATTERNS[i].lits, FALSE)) :
                 i \in 1..Len(PROTOVALIDATE_PATTERNS)} \ {None}

InitWalk ==
    /\ host \in LitHosts \cup EscapeHosts \cup {EscapedQuotesHost}
    /\ regions = <<>>
    /\ op = "new"
    /\ arg = <<>>
    /\ ret = None
    /\ walk = NoWalk
    /\ index = LineIndexNew(host)
    /\ StoreInit

\* extract_string_literal up to its loop: the two early returns, then the setup.
WalkBegin ==
    /\ walk.status = "idle"
    /\ \E start \in LiteralStarts(as_bytes(host)) :
        /\ start < Len(as_bytes(host))
        /\ At(as_bytes(host), start) = 34
        /\ walk' = WalkStart(start)
        /\ arg' = <<start>>
    /\ op' = "extract_string_literal"
    /\ UNCHANGED <<host, regions, ret, index>>
    /\ UNCHANGED store_vars

\* One iteration of the loop; its exits set the status.
WalkIterate ==
    /\ walk.status = "walking"
    /\ walk' = WalkStep(as_bytes(host), walk)
    /\ UNCHANGED <<host, regions, op, arg, ret, index>>
    /\ UNCHANGED store_vars

NextWalk == WalkBegin \/ WalkIterate

SpecWalk == InitWalk /\ [][NextWalk]_vars

-----------------------------------------------------------------------------
(* The line index of a text, queried in both directions.                   *)

\* Longest text, in chars.
MaxChars == 4

\* a, line feed, e-acute (2 bytes, 1 UTF-16 unit), U+1F600 (4 bytes, 2 units).
TextAlphabet == {97, 10, 233, 128512}

Texts == UNION {[1..n -> TextAlphabet] : n \in 0..MaxChars}

\* a, U+1F600, b: the text of the test utf16_handling.
AstralText == <<97, 128512, 98>>

InitLine ==
    /\ host \in Texts \cup {AstralText}
    /\ regions = <<>>
    /\ op = "new"
    /\ arg = <<>>
    /\ ret = None
    /\ walk = NoWalk
    /\ index = LineIndexNew(host)
    /\ StoreInit

LineReady == op \in {"new", "return"}

OffsetToPosition ==
    /\ LineReady
    /\ \E offset \in 0..StrLen(index.source) :
        /\ op' = "offset_to_position"
        /\ arg' = offset
        /\ ret' = offset_to_position(index, offset)
    /\ UNCHANGED <<host, regions, walk, index>>
    /\ UNCHANGED store_vars

PositionToOffset ==
    /\ LineReady
    /\ \E line \in 0..(MaxChars + 1) : \E character \in 0..(2 * MaxChars + 1) :
        /\ op' = "position_to_offset"
        /\ arg' = <<line, character>>
        /\ ret' = position_to_offset(index, <<line, character>>)
    /\ UNCHANGED <<host, regions, walk, index>>
    /\ UNCHANGED store_vars

\* The caller takes the result of a line-index query.
LineReturn ==
    /\ op \in {"offset_to_position", "position_to_offset"}
    /\ op' = "return"
    /\ arg' = <<>>
    /\ ret' = None
    /\ UNCHANGED <<host, regions, walk, index>>
    /\ UNCHANGED store_vars

NextLine == OffsetToPosition \/ PositionToOffset \/ LineReturn

SpecLine == InitLine /\ [][NextLine]_vars

\* The byte offset at which the char holding byte o starts (o itself at the end
\* of the text).
CharStartOf(s, o) ==
    Max({CharStart(s, k) : k \in {j \in 1..(Len(s) + 1) : CharStart(s, j) <= o}})

\* C3: position_to_offset(offset_to_position(o)) is o when o is a char boundary
\* and the byte-start of the char containing o when o is inside a multi-byte
\* char.
C3_LineRoundTrip ==
    op = "position_to_offset" =>
        \A o \in 0..StrLen(index.source) :
            arg = offset_to_position(index, o) => ret = CharStartOf(index.source, o)

-----------------------------------------------------------------------------
(* Properties of the offset mapper and the extractor.                      *)

\* A(c) as specified: the cumulative value of the last entry whose cel_offset is
\* at most c, zero when there is none.
CumulativeAt(adjs, c) ==
    LET below == {k \in 1..Len(adjs) : adjs[k][1] <= c}
    IN  IF below = {} THEN 0 ELSE adjs[Max(below)][2]

SourceLen(r) == StrLen(r.region.source)

\* C1: a CEL offset mapped to the host and back is unchanged:
\* host_to_cel_offset(to_host(c)) = c for every c in 0..|source| of every region.
C1_RoundTrip ==
    op = "host_to_cel_offset" =>
        \A c \in 0..SourceLen(regions[arg[1]]) :
            arg[2] = to_host(regions[arg[1]].mapper, c) => ret = c

\* C2: inside a region, host_to_cel_offset(h) is the largest c <= |source| with
\* to_host(c) <= h.
C2_LargestBelow ==
    (op = "host_to_cel_offset" /\ contains_host_offset(regions[arg[1]], arg[2])) =>
        ret = Max({c \in 0..SourceLen(regions[arg[1]]) :
                     to_host(regions[arg[1]].mapper, c) <= arg[2]})

\* C4: the regions are returned in host order: host_offset strictly increases
\* along the list.
C4_HostOrder ==
    \A i, j \in 1..Len(regions) :
        i < j => regions[i].mapper.host_offset < regions[j].mapper.host_offset

HostRange(r) ==
    r.mapper.host_offset..(r.mapper.host_offset + host_length(r.mapper, SourceLen(r)))

\* C5: the host byte ranges of two distinct regions are disjoint.
C5_Disjoint ==
    \A i, j \in 1..Len(regions) : i # j => HostRange(regions[i]) \cap HostRange(regions[j]) = {}

\* Is the byte at q a double quote that no backslash pair from start on escapes?
UnescapedQuote(bytes, start, q) ==
    /\ q < Len(bytes)
    /\ At(bytes, q) = 34
    /\ LET run == {k \in 0..(q - start) : \A m \in 1..k : At(bytes, q - m) = 92}
       IN  Max(run) % 2 = 0

\* The host position of the quote closing the literal whose content starts at start.
ClosingQuote(bytes, start) ==
    Min({q \in start..Len(bytes) : UnescapedQuote(bytes, start, q) \/ q = Len(bytes)})

\* C6: every region ends inside the host text, exactly on its closing quote:
\* host_offset + |source| + A(|source|) <= |host| and host_offset +
\* host_length(|source|) is the position of the closing quote.
C6_RegionBound ==
    \A i \in 1..Len(regions) :
        LET r == regions[i]
            end == r.mapper.host_offset + SourceLen(r)
                   + CumulativeAt(r.mapper.escape_adjustments, SourceLen(r))
        IN  /\ end <= StrLen(host)
            /\ r.mapper.host_offset + host_length(r.mapper, SourceLen(r))
                 = ClosingQuote(as_bytes(host), r.mapper.host_offset)

\* The inclusive host range of a region as specified.
InRange(r, h) ==
    /\ r.mapper.host_offset <= h
    /\ h <= r.mapper.host_offset + SourceLen(r)
            + CumulativeAt(r.mapper.escape_adjustments, SourceLen(r))

\* C7: contains_host_offset(h) is true exactly when host_offset <= h <=
\* host_offset + host_length(|source|); so it is true at both ends of the range
\* and false one byte outside either end.
C7_ContainsIffInRange ==
    op = "contains_host_offset" => (ret <=> InRange(regions[arg[1]], arg[2]))

\* C7 witness: the query at the inclusive upper bound of a region with escapes
\* answered true.
C7_Witness ==
    /\ op = "contains_host_offset"
    /\ regions[arg[1]].mapper.escape_adjustments # <<>>
    /\ arg[2] = regions[arg[1]].mapper.host_offset
                 + host_length(regions[arg[1]].mapper, SourceLen(regions[arg[1]]))
    /\ ret = TRUE

\* C8: to_host(c) = host_offset + c + A(c), and to_host is strictly increasing
\* in c, so no two CEL offsets share a host offset.
C8_ToHostInjective ==
    /\ op = "to_host" =>
           ret = regions[arg[1]].mapper.host_offset + arg[2]
                 + CumulativeAt(regions[arg[1]].mapper.escape_adjustments, arg[2])
    /\ \A i \in 1..Len(regions) :
           \A c1, c2 \in 0..(SourceLen(regions[i]) + 1) :
               c1 < c2 => to_host(regions[i].mapper, c1) < to_host(regions[i].mapper, c2)

\* C8 witness: to_host asked at the offset of an adjustment of a region with two
\* escapes.
C8_Witness ==
    /\ op = "to_host"
    /\ Len(regions[arg[1]].mapper.escape_adjustments) >= 2
    /\ arg[2] = regions[arg[1]].mapper.escape_adjustments[2][1]

\* this.contains("hello")
ContainsHelloSource ==
    <<116, 104, 105, 115, 46, 99, 111, 110, 116, 97, 105, 110, 115, 40, 34, 104, 101,
      108, 108, 111, 34, 41>>

\* What C9 states of any length and second adjustment.
EscapeScenario(length, second) ==
    (host = EscapedQuotesHost /\ Opened) =>
        /\ Len(regions) = 1
        /\ regions[1].region.source = ContainsHelloSource
        /\ SourceLen(regions[1]) = length
        /\ regions[1].mapper.escape_adjustments = <<<<15, 1>>, second>>
        /\ At(as_bytes(host), to_host(regions[1].mapper, 0)) = 116
        /\ to_host(regions[1].mapper, 22) = regions[1].mapper.host_offset + 22 + 2

\* C9 as stated: the decoded source of "this.contains(\"hello\")" is
\* this.contains("hello") of 21 bytes with adjustments (15, 1) and (22, 2);
\* to_host(0) is the host byte of t and to_host(22) = host_offset + 22 + 2.
C9_AsStated == EscapeScenario(21, <<22, 2>>)

\* C9 amended: the decoded source has 22 bytes and the adjustments are (15, 1)
\* and (21, 2), each the decoded length just after an escaped quote; the rest as
\* stated.
C9_EscapeScenario == EscapeScenario(22, <<21, 2>>)

\* C9 witness: the scenario's host is extracted and to_host(22) was asked.
C9_Witness ==
    /\ host = EscapedQuotesHost
    /\ op = "to_host"
    /\ arg = <<1, 22>>
    /\ ret = regions[1].mapper.host_offset + 24

\* The character the escape \x stands for, as specified.
UsualChar(x) ==
    IF x = 110 THEN 10 ELSE IF x = 116 THEN 9 ELSE IF x = 114 THEN 13
    ELSE IF x = 48 THEN 0 ELSE x

\* The walk is at a backslash that has a byte after it.
AtEscape ==
    /\ walk.status = "walking"
    /\ walk.pos + 1 < Len(as_bytes(host))
    /\ At(as_bytes(host), walk.pos) = 92

\* The adjustments are (offset, 1), (offset, 2), ... with increasing offsets.
AdjustmentsCounted(adjs) ==
    \A k \in 1..Len(adjs) :
        /\ adjs[k][2] = k
        /\ k > 1 => adjs[k][1] > adjs[k - 1][1]

\* C10: an escape step consumes two host bytes, appends the one char the escape
\* stands for, and records (|source| after the append, k), k the number of escapes
\* consumed so far; the recorded offsets increase strictly and the cumulative
\* value by one per entry.
C10_EscapeStep ==
    [][ /\ AtEscape =>
            /\ walk'.pos = walk.pos + 2
            /\ walk'.content
                 = Append(walk.content, UsualChar(At(as_bytes(host), walk.pos + 1)))
            /\ walk'.escape_adjustments
                 = Append(walk.escape_adjustments,
                          <<StrLen(walk'.content),
                            (walk'.pos - (arg[1] + 1)) - Len(walk'.content)>>)
        /\ walk'.status # "idle" => AdjustmentsCounted(walk'.escape_adjustments)
      ]_vars

\* C10 witness: a walk that closed its literal after two escapes, the second one
\* not directly after the first.
C10_Witness ==
    /\ walk.status = "closed"
    /\ Len(walk.escape_adjustments) = 2
    /\ walk.escape_adjustments[2][1] > walk.escape_adjustments[1][1] + 1

-----------------------------------------------------------------------------
(* Host texts with comments: each segment starts and ends outside any      *)
(* comment and string, except the two left open, which come last.          *)

\* Most segments in a commented host.
MaxSegs == 2

\* (buf.validate.field).cel={expression:"n"}
FieldAnn ==
    <<40, 98, 117, 102, 46, 118, 97, 108, 105, 100, 97, 116, 101, 46, 102, 105, 101, 108, 100,
      41, 46, 99, 101, 108, 61, 123, 101, 120, 112, 114, 101, 115, 115, 105, 111, 110, 58, 34,
      110, 34, 125>>

\* The same annotation with the literal "//".
AnnSlashes ==
    <<40, 98, 117, 102, 46, 118, 97, 108, 105, 100, 97, 116, 101, 46, 102, 105, 101, 108, 100,
      41, 46, 99, 101, 108, 61, 123, 101, 120, 112, 114, 101, 115, 115, 105, 111, 110, 58, 34,
      47, 47, 34, 125>>

\* The same annotation with the literal "\"/*" (an escaped quote, then /*).
AnnStar ==
    <<40, 98, 117, 102, 46, 118, 97, 108, 105, 100, 97, 116, 101, 46, 102, 105, 101, 108, 100,
      41, 46, 99, 101, 108, 61, 123, 101, 120, 112, 114, 101, 115, 115, 105, 111, 110, 58, 34,
      92, 34, 47, 42, 34, 125>>

\* // annotation, line feed.
LineCommented == <<47, 47>> \o FieldAnn \o <<10>>

\* /* annotation */
BlockCommented == <<47, 42>> \o FieldAnn \o <<42, 47>>

\* /*/ annotation */ : the slash after /* does not close the comment.
SlashCommented == <<47, 42, 47>> \o FieldAnn \o <<42, 47>>

\* /* annotation, never closed; // annotation, no line feed after it.
OpenCommented == {<<47, 42>> \o FieldAnn, <<47, 47>> \o FieldAnn}

ClosedSegments ==
    {FieldAnn, AnnSlashes, AnnStar, LineCommented, BlockCommented, SlashCommented}

\* Sequences of closed segments, the last one possibly left open.
SegmentSeqs ==
    {fs \in UNION {[1..n -> ClosedSegments \cup OpenCommented] : n \in 0..MaxSegs} :
        \A k \in 1..(Len(fs) - 1) : fs[k] \in ClosedSegments}

CommentHosts == {Concat(fs, 1) : fs \in SegmentSeqs}

InitComment ==
    /\ host \in CommentHosts
    /\ regions = <<>>
    /\ op = "new"
    /\ arg = <<>>
    /\ ret = None
    /\ walk = NoWalk
    /\ index = LineIndexNew(host)
    /\ StoreInit

SpecComment == InitComment /\ [][Next]_vars

\* The same annotation with the literal "}": a brace inside a string.
AnnBrace ==
    <<40, 98, 117, 102, 46, 118, 97, 108, 105, 100, 97, 116, 101, 46, 102, 105, 101, 108, 100,
      41, 46, 99, 101, 108, 61, 123, 101, 120, 112, 114, 101, 115, 115, 105, 111, 110, 58, 34,
      125, 34, 125>>

\* The same annotation with the literal "\"}": a brace after an escaped quote.
AnnEscBrace ==
    <<40, 98, 117, 102, 46, 118, 97, 108, 105, 100, 97, 116, 101, 46, 102, 105, 101, 108, 100,
      41, 46, 99, 101, 108, 61, 123, 101, 120, 112, 114, 101, 115, 115, 105, 111, 110, 58, 34,
      92, 34, 125, 34, 125>>

\* The annotations that are complete and outside comments where they stand.
GoodSegments == {FieldAnn, AnnSlashes, AnnStar, AnnBrace, AnnEscBrace}

\* The decoded literal of a complete annotation segment.
LiteralOf(seg) ==
    IF seg = FieldAnn THEN <<110>>
    ELSE IF seg = AnnSlashes THEN <<47, 47>>
    ELSE IF seg = AnnStar THEN <<34, 47, 42>>
    ELSE IF seg = AnnBrace THEN <<125>>
    ELSE <<34, 125>>

\* What the segments k.. of segs, the first at host offset at, are to yield: one
\* <<host_offset, source>> per complete uncommented annotation, in order.
RECURSIVE ExpectedOf(_, _, _)
ExpectedOf(segs, k, at) ==
    IF k > Len(segs) THEN <<>>
    ELSE (IF segs[k] \in GoodSegments
          THEN << <<at + Len(LitPrefix), LiteralOf(segs[k])>> >>
          ELSE <<>>)
         \o ExpectedOf(segs, k + 1, at + Len(segs[k]))

\* The regions as <<host_offset, source>> pairs.
Extracted == [i \in 1..Len(regions) |->
                <<regions[i].mapper.host_offset, regions[i].region.source>>]

\* C11: an annotation that starts inside a // or /* */ comment yields no region,
\* and // or /* inside a string literal starts no comment: the regions are exactly
\* the uncommented annotations of the host, in order.
C11_CommentsSuppress ==
    op = "extract_cel_regions" =>
        \A segs \in SegmentSeqs :
            host = Concat(segs, 1) =>
                Extracted = ExpectedOf(segs, 1, 0)

\* C11 witness: a line-commented annotation, then an annotation whose literal is
\* //, extracted as the only region.
C11_Witness ==
    /\ op = "extract_cel_regions"
    /\ host = LineCommented \o AnnSlashes
    /\ Len(regions) = 1
    /\ regions[1].region.source = <<47, 47>>

-----------------------------------------------------------------------------
(* Host texts with annotations that are not complete.                      *)

\* (buf.validate.field).cel={expression:"n"   (no closing brace)
NoBrace ==
    <<40, 98, 117, 102, 46, 118, 97, 108, 105, 100, 97, 116, 101, 46, 102, 105, 101, 108, 100,
      41, 46, 99, 101, 108, 61, 123, 101, 120, 112, 114, 101, 115, 115, 105, 111, 110, 58, 34,
      110, 34>>

\* (buf.validate.field).cel={expression:"}"   (the only closing brace is in the string)
BraceInString ==
    <<40, 98, 117, 102, 46, 118, 97, 108, 105, 100, 97, 116, 101, 46, 102, 105, 101, 108, 100,
      41, 46, 99, 101, 108, 61, 123, 101, 120, 112, 114, 101, 115, 115, 105, 111, 110, 58, 34,
      125, 34>>

\* (buf.validate.field).cel={expression:"\"}"   (the same, after an escaped quote)
BraceAfterEscape ==
    <<40, 98, 117, 102, 46, 118, 97, 108, 105, 100, 97, 116, 101, 46, 102, 105, 101, 108, 100,
      41, 46, 99, 101, 108, 61, 123, 101, 120, 112, 114, 101, 115, 115, 105, 111, 110, 58, 34,
      92, 34, 125, 34>>

\* (buf.validate.field).cel={expression:n}   (no opening quote)
NoQuote ==
    <<40, 98, 117, 102, 46, 118, 97, 108, 105, 100, 97, 116, 101, 46, 102, 105, 101, 108, 100,
      41, 46, 99, 101, 108, 61, 123, 101, 120, 112, 114, 101, 115, 115, 105, 111, 110, 58, 110,
      125>>

\* (buf.validate.field).cel={expression:'n'}   (a single quote)
SingleQuote ==
    <<40, 98, 117, 102, 46, 118, 97, 108, 105, 100, 97, 116, 101, 46, 102, 105, 101, 108, 100,
      41, 46, 99, 101, 108, 61, 123, 101, 120, 112, 114, 101, 115, 115, 105, 111, 110, 58, 39,
      110, 39, 125>>

\* (buf.validate.field).cel={expression:"n   (the string runs to the end of the text)
UnclosedString ==
    <<40, 98, 117, 102, 46, 118, 97, 108, 105, 100, 97, 116, 101, 46, 102, 105, 101, 108, 100,
      41, 46, 99, 101, 108, 61, 123, 101, 120, 112, 114, 101, 115, 115, 105, 111, 110, 58, 34,
      110>>

\* (buf.validate.field).cel={"expression:"n}   (the block closes, the string that
\* starts after expression: does not)
UnclosedInBlock ==
    <<40, 98, 117, 102, 46, 118, 97, 108, 105, 100, 97, 116, 101, 46, 102, 105, 101, 108, 100,
      41, 46, 99, 101, 108, 61, 123, 34, 101, 120, 112, 114, 101, 115, 115, 105, 111, 110, 58,
      34, 110, 125>>

\* Segments after which the text goes on; the unclosed strings come last.
BrokenSegments ==
    {FieldAnn, AnnBrace, AnnEscBrace, NoBrace, BraceInString, BraceAfterEscape, NoQuote,
     SingleQuote}

BrokenSeqs ==
    {fs \in UNION {[1..n -> BrokenSegments \cup {UnclosedString, UnclosedInBlock}] :
                     n \in 0..MaxSegs} :
        \A k \in 1..(Len(fs) - 1) : fs[k] \in BrokenSegments}

BrokenHosts == {Concat(fs, 1) : fs \in BrokenSeqs}

InitBroken ==
    /\ host \in BrokenHosts
    /\ regions = <<>>
    /\ op = "new"
    /\ arg = <<>>
    /\ ret = None
    /\ walk = NoWalk
    /\ index = LineIndexNew(host)
    /\ StoreInit

SpecBroken == InitBroken /\ [][Next]_vars

\* C12: a match yields no region when its block has no closing brace outside
\* strings, when expression: is not followed by a double quote, or when the string
\* is never closed; the complete annotations of the same host are still extracted.
C12_BrokenSkipped ==
    op = "extract_cel_regions" =>
        \A segs \in BrokenSeqs :
            host = Concat(segs, 1) => Extracted = ExpectedOf(segs, 1, 0)

\* C12 witness: an annotation whose only closing brace follows an escaped quote
\* inside the string, then a complete annotation, which is the only region.
C12_Witness ==
    /\ op = "extract_cel_regions"
    /\ host = BraceAfterEscape \o FieldAnn
    /\ Extracted = << <<Len(BraceAfterEscape) + Len(LitPrefix), <<110>>>> >>

-----------------------------------------------------------------------------
(* Document states, the Document Store and the diagnostics (document/      *)
(* state.rs, lsp/diagnostics.rs, lib.rs).  A shared state (an Arc) is an    *)
(* index into heap; the store maps a URI to such an index or to None.       *)

\* Most messages the editor sends.
MaxMessages == 2

\* is_proto_file: the path ends in ".proto".
is_proto_file(uri) ==
    /\ Len(uri) >= 6
    /\ SubSeq(uri, Len(uri) - 5, Len(uri)) = <<46, 112, 114, 111, 116, 111>>

\* The texts the editor sends for a document: x and "1 + " for a CEL file, a
\* field annotation and an annotation without a literal for a proto file.
TextsOf(uri) ==
    IF is_proto_file(uri) THEN {FieldAnn, NoQuote} ELSE {<<120>>, <<49, 32, 43, 32>>}

\* The parser and the checker, on the sources of the model: an undeclared
\* reference for the identifiers x and n, a parse error at the end of "1 + ",
\* nothing otherwise.
Analyse(source) ==
    IF source \in {<<120>>, <<110>>}
    THEN [errors |-> <<>>,
          check_errors |-> << [span |-> <<0, 1>>, kind |-> "UndeclaredReference",
                               message |-> "undeclared reference"] >>]
    ELSE IF source = <<49, 32, 43, 32>>
    THEN [errors |-> << [span |-> <<4, 4>>, message |-> "syntax error"] >>,
          check_errors |-> <<>>]
    ELSE [errors |-> <<>>, check_errors |-> <<>>]

\* DocumentState::with_env.
DocumentStateNew(source, version) ==
    LET result == Analyse(source)
    IN  [kind |-> "Cel", line_index |-> LineIndexNew(source), errors |-> result.errors,
         check_errors |-> result.check_errors, version |-> version, source |-> source]

\* CelRegionState::with_context.
with_context(r) ==
    LET result == Analyse(r.region.source)
    IN  [region |-> r.region, mapper |-> r.mapper, context |-> r.context,
         parse_errors |-> result.errors, check_errors |-> result.check_errors]

\* ProtoDocumentState::new.
ProtoDocumentStateNew(source, version) ==
    LET extracted == ProtoRegions(source)
    IN  [kind |-> "Proto", line_index |-> LineIndexNew(source),
         regions |-> [i \in 1..Len(extracted) |-> with_context(extracted[i])],
         version |-> version]

\* The Document Kind open builds for a URI.
DocumentKindNew(uri, source, version) ==
    IF is_proto_file(uri) THEN ProtoDocumentStateNew(source, version)
    ELSE DocumentStateNew(source, version)

\* open that keeps an entry that is already there.
open_if_absent(docs, hp, uri, source, version) ==
    LET state == Len(hp) + 1
    IN  [documents |-> IF docs[uri] = None THEN [docs EXCEPT ![uri] = state] ELSE docs,
         heap |-> Append(hp, DocumentKindNew(uri, source, version)),
         state |-> state]

\* open that writes the new state into the shared state the entry already holds.
open_in_place(docs, hp, uri, source, version) ==
    IF docs[uri] = None
    THEN [documents |-> [docs EXCEPT ![uri] = Len(hp) + 1],
          heap |-> Append(hp, DocumentKindNew(uri, source, version)),
          state |-> Len(hp) + 1]
    ELSE [documents |-> docs,
          heap |-> [hp EXCEPT ![docs[uri]] = DocumentKindNew(uri, source, version)],
          state |-> docs[uri]]

\* DocumentStore::open: build the state, share it, insert it, return it.
open(docs, hp, uri, source, version) ==
    LET state == Len(hp) + 1
    IN  [documents |-> [docs EXCEPT ![uri] = state],
         heap |-> Append(hp, DocumentKindNew(uri, source, version)),
         state |-> state]

\* close that leaves the entry in the store.
close_keep(docs, uri) == docs

\* DocumentStore::close.
close(docs, uri) == [docs EXCEPT ![uri] = None]

\* get that hands out the state of another entry when the entry is missing.
get_any(docs, uri) ==
    IF docs[uri] # None \/ \A u \in Uris : docs[u] = None THEN docs[uri]
    ELSE docs[CHOOSE u \in Uris : docs[u] # None]

\* DocumentStore::get: the shared state of the entry, or None.
get(docs, uri) == docs[uri]

\* The code a check error is published with.
CodeOf(kind) ==
    CASE kind = "UndeclaredReference" -> "undeclared-reference"
      [] kind = "NoMatchingOverload" -> "no-matching-overload"
      [] kind = "TypeMismatch" -> "type-mismatch"
      [] kind = "UndefinedField" -> "undefined-field"
      [] kind = "NotAssignable" -> "type-mismatch"
      [] kind = "HeterogeneousAggregate" -> "heterogeneous-aggregate"
      [] kind = "NotAType" -> "not-a-type"
      [] OTHER -> "check-error"

parse_errors_to_diagnostics(errors, line_index) ==
    [i \in 1..Len(errors) |->
        [range |-> span_to_range(line_index, errors[i].span), severity |-> "ERROR",
         code |-> "", source |-> "cel", message |-> errors[i].message]]

check_errors_to_diagnostics(errors, line_index) ==
    [i \in 1..Len(errors) |->
        [range |-> span_to_range(line_index, errors[i].span), severity |-> "ERROR",
         code |-> CodeOf(errors[i].kind), source |-> "cel", message |-> errors[i].message]]

to_diagnostics(parse_errors, check_errors, line_index) ==
    parse_errors_to_diagnostics(parse_errors, line_index)
    \o check_errors_to_diagnostics(check_errors, line_index)

\* The loop body of proto_to_diagnostics without the parse errors.
RegionDiagnosticsChecked(state, r) ==
    [i \in 1..Len(r.check_errors) |->
        [range |-> span_to_range(state.line_index,
                                 span_to_host(r.mapper, r.check_errors[i].span)),
         severity |-> "ERROR", code |-> CodeOf(r.check_errors[i].kind), source |-> "cel",
         message |-> r.check_errors[i].message]]

\* The body of the loop of proto_to_diagnostics for one region: the spans go
\* through the region's mapper to the host text.
RegionDiagnostics(state, r) ==
    [i \in 1..Len(r.parse_errors) |->
        [range |-> span_to_range(state.line_index,
                                 span_to_host(r.mapper, r.parse_errors[i].span)),
         severity |-> "ERROR", code |-> "", source |-> "cel",
         message |-> r.parse_errors[i].message]]
    \o [i \in 1..Len(r.check_errors) |->
        [range |-> span_to_range(state.line_index,
                                 span_to_host(r.mapper, r.check_errors[i].span)),
         severity |-> "ERROR", code |-> CodeOf(r.check_errors[i].kind), source |-> "cel",
         message |-> r.check_errors[i].message]]

RECURSIVE ProtoDiagnosticsFrom(_, _)
ProtoDiagnosticsFrom(state, k) ==
    IF k > Len(state.regions) THEN <<>>
    ELSE RegionDiagnostics(state, state.regions[k]) \o ProtoDiagnosticsFrom(state, k + 1)

proto_to_diagnostics(state) == ProtoDiagnosticsFrom(state, 1)

\* publish_diagnostics_for without the version of the state.
publish_diagnostics_unversioned(uri, state) ==
    [uri |-> uri,
     diagnostics |-> IF state.kind = "Cel"
                     THEN to_diagnostics(state.errors, state.check_errors, state.line_index)
                     ELSE proto_to_diagnostics(state),
     version |-> None]

\* Backend::publish_diagnostics_for: the notification sent to the editor.
publish_diagnostics_for(uri, state) ==
    [uri |-> uri,
     diagnostics |-> IF state.kind = "Cel"
                     THEN to_diagnostics(state.errors, state.check_errors, state.line_index)
                     ELSE proto_to_diagnostics(state),
     version |-> state.version]

\* Backend::on_document_change: open the document, publish the diagnostics of the
\* state open returned.
on_document_change(uri, text, version) ==
    \E opened \in {open(documents, heap, uri, text, version)} :
        /\ documents' = opened.documents
        /\ heap' = opened.heap
        /\ published' = Append(published,
                               publish_diagnostics_for(uri, opened.heap[opened.state]))

\* The version the editor gives its next message: versions increase.
NextVersion == Len(sent) + 1

InitStore ==
    /\ host = <<>>
    /\ regions = <<>>
    /\ op = "new"
    /\ arg = <<>>
    /\ ret = None
    /\ walk = NoWalk
    /\ index = LineIndexNew(<<>>)
    /\ documents = [u \in Uris |-> None]
    /\ heap = <<>>
    /\ published = <<>>
    /\ reader = [status |-> "idle"]
    /\ sent = <<>>

\* Backend::did_open.
DidOpen ==
    /\ Len(sent) < MaxMessages
    /\ \E uri \in Uris : \E text \in TextsOf(uri) :
        /\ on_document_change(uri, text, NextVersion)
        /\ sent' = Append(sent, [method |-> "did_open", uri |-> uri,
                                 content_changes |-> <<text>>, version |-> NextVersion])
    /\ UNCHANGED reader
    /\ UNCHANGED doc_vars

\* Backend::did_change: the first content change bears the whole text; without
\* one the handler does nothing.
DidChange ==
    /\ Len(sent) < MaxMessages
    /\ \E uri \in Uris : \E content_changes \in {<<>>} \cup {<<t>> : t \in TextsOf(uri)} :
        /\ IF content_changes # <<>>
           THEN on_document_change(uri, content_changes[1], NextVersion)
           ELSE UNCHANGED <<documents, heap, published>>
        /\ sent' = Append(sent, [method |-> "did_change", uri |-> uri,
                                 content_changes |-> content_changes,
                                 version |-> NextVersion])
    /\ UNCHANGED reader
    /\ UNCHANGED doc_vars

\* Backend::did_close: remove the entry, then clear the diagnostics.
DidClose ==
    /\ Len(sent) < MaxMessages
    /\ \E uri \in Uris :
        /\ documents' = close(documents, uri)
        /\ published' = Append(published,
                               [uri |-> uri, diagnostics |-> <<>>, version |-> None])
        /\ sent' = Append(sent, [method |-> "did_close", uri |-> uri,
                                 content_changes |-> <<>>, version |-> NextVersion])
    /\ UNCHANGED <<heap, reader>>
    /\ UNCHANGED doc_vars

\* Backend::hover up to the match: get the document; without one the request
\* returns at once.  seen is the state as it was when the reader got it.
HoverGet ==
    /\ reader.status = "idle"
    /\ \E uri \in Uris :
        LET doc == get(documents, uri)
        IN  IF doc = None THEN UNCHANGED reader
            ELSE reader' = [status |-> "holding", uri |-> uri, doc |-> doc,
                            seen |-> heap[doc]]
    /\ UNCHANGED <<documents, heap, published, sent>>
    /\ UNCHANGED doc_vars

\* Backend::hover from the match on: the request reads the state it holds.
HoverUse ==
    /\ reader.status = "holding"
    /\ reader' = [status |-> "idle"]
    /\ UNCHANGED <<documents, heap, published, sent>>
    /\ UNCHANGED doc_vars

NextStore == DidOpen \/ DidChange \/ DidClose \/ HoverGet \/ HoverUse

SpecStore == InitStore /\ [][NextStore]_vars

-----------------------------------------------------------------------------
(* Properties of the Document Store and of the handlers.                   *)

\* The message makes the handler call DocumentStore::open.
IsOpenCall(m) == m.method \in {"did_open", "did_change"} /\ m.content_changes # <<>>

\* The messages, by position, that made a handler call open or close for u.
StoreCalls(u) ==
    {k \in 1..Len(sent) : sent[k].uri = u /\ (IsOpenCall(sent[k]) \/ sent[k].method = "did_close")}

\* The state built from the text and the version of an open call.
StateOf(m) == DocumentKindNew(m.uri, m.content_changes[1], m.version)

\* C13: after any sequence of open and close calls, get(uri) returns a state
\* exactly when the most recent call for that uri was an open, and the state is
\* the one built from the text and the version of that open.
C13_StoreLifecycle ==
    \A u \in Uris :
        LET calls == StoreCalls(u)
        IN  IF calls = {} \/ ~IsOpenCall(sent[Max(calls)])
            THEN get(documents, u) = None
            ELSE /\ get(documents, u) # None
                 /\ heap[get(documents, u)] = StateOf(sent[Max(calls)])

\* C13 witness: a document opened and then updated with another text: get returns
\* the state of the second update.
C13_Witness ==
    /\ Len(sent) = 2
    /\ sent[1].uri = sent[2].uri
    /\ IsOpenCall(sent[1]) /\ IsOpenCall(sent[2])
    /\ sent[1].content_changes # sent[2].content_changes
    /\ get(documents, sent[2].uri) # None
    /\ heap[get(documents, sent[2].uri)].version = 2

\* The state comes whole from one update of the document u.
FromOneUpdate(state, u) ==
    \E k \in 1..Len(sent) : IsOpenCall(sent[k]) /\ sent[k].uri = u /\ state = StateOf(sent[k])

\* A request that holds a state reads what it got, all of it from one update.
ReaderSeesSnapshot ==
    reader.status = "holding" =>
        /\ heap[reader.doc] = reader.seen
        /\ FromOneUpdate(heap[reader.doc], reader.uri)

\* No step changes a state that is already shared.
HeapKept == \A i \in 1..Len(heap) : i <= Len(heap') /\ heap'[i] = heap[i]

\* C14: a reader that got a state from get(uri) keeps observing exactly that
\* state, whole and from one update, while open and close calls replace or remove
\* the entry; a stored state is never mutated after insertion.
C14_SnapshotIsolation == []ReaderSeesSnapshot /\ [][HeapKept]_vars

\* C14 witness: a request still holds the first state of a document whose entry
\* has since been replaced by an update with another text.
C14_Witness ==
    /\ reader.status = "holding"
    /\ reader.doc = 1
    /\ Len(sent) = 2
    /\ IsOpenCall(sent[2]) /\ sent[2].uri = reader.uri
    /\ sent[2].content_changes # sent[1].content_changes
    /\ get(documents, reader.uri) = 2
    /\ reader.seen = heap[1]

\* The diagnostics of a state.
DiagnosticsOf(state) ==
    IF state.kind = "Cel"
    THEN to_diagnostics(state.errors, state.check_errors, state.line_index)
    ELSE proto_to_diagnostics(state)

\* The diagnostics of the state built from each text of the model (they do not
\* depend on the version).
DiagnosticsOfText ==
    [u \in Uris |-> [t \in TextsOf(u) |-> DiagnosticsOf(DocumentKindNew(u, t, 0))]]

IsVersioned(p) == p.version # None

\* The publications for the document u, by position.
PublishedFor(u) == {k \in 1..Len(published) : published[k].uri = u}

Handled == sent' # sent /\ sent' = Append(sent, sent'[Len(sent')])

\* C16: did_close removes the entry of its URI and publishes an empty diagnostic
\* list for it; a did_change without a content change neither alters the store
\* nor publishes.
C16_CloseAndEmptyChange ==
    [][ Handled =>
          LET m == sent'[Len(sent')]
          IN  /\ m.method = "did_close" =>
                    /\ get(documents', m.uri) = None
                    /\ \A u \in Uris \ {m.uri} : get(documents', u) = get(documents, u)
                    /\ published' = Append(published, [uri |-> m.uri, diagnostics |-> <<>>,
                                                       version |-> None])
              /\ (m.method = "did_change" /\ m.content_changes = <<>>) =>
                    UNCHANGED <<documents, heap, published>>
      ]_vars

\* C16 witness: a document opened and closed: the second publication is the empty
\* list, the entry is gone.
C16_Witness ==
    /\ Len(sent) = 2
    /\ IsOpenCall(sent[1])
    /\ sent[2].method = "did_close" /\ sent[2].uri = sent[1].uri
    /\ Len(published) = 2
    /\ published[2] = [uri |-> sent[1].uri, diagnostics |-> <<>>, version |-> None]
    /\ get(documents, sent[1].uri) = None

-----------------------------------------------------------------------------
(* Semantic tokens (lsp/semantic_tokens.rs).  An expression is a record     *)
(* [node, span, name, op, names, kids]: the variant, the byte span, the     *)
(* identifier or field name, the operator, the field names of a struct, and *)
(* the sub-expressions in the order of the variant's fields (the entries of *)
(* a map as key, value, key, value; the callee of a call and the type name  *)
(* of a struct first).                                                      *)

token_types_KEYWORD == 0
token_types_NUMBER == 1
token_types_STRING == 2
token_types_OPERATOR == 3
token_types_VARIABLE == 4
token_types_FUNCTION == 5
token_types_METHOD == 6
token_types_PUNCTUATION == 7

DEFAULT_LIBRARY == 1

\* The keys of BUILTINS.
BUILTINS ==
    {
     <<98, 111, 111, 108>>,
     <<98, 121, 116, 101, 115>>,
     <<100, 111, 117, 98, 108, 101>>,
     <<100, 117, 114, 97, 116, 105, 111, 110>>,
     <<100, 121, 110>>,
     <<105, 110, 116>>,
     <<115, 116, 114, 105, 110, 103>>,
     <<116, 105, 109, 101, 115, 116, 97, 109, 112>>,
     <<116, 121, 112, 101>>,
     <<117, 105, 110, 116>>,
     <<115, 105, 122, 101>>,
     <<104, 97, 115>>,
     <<97, 108, 108>>,
     <<101, 120, 105, 115, 116, 115>>,
     <<101, 120, 105, 115, 116, 115, 95, 111, 110, 101>>,
     <<102, 105, 108, 116, 101, 114>>,
     <<109, 97, 112>>,
     <<99, 111, 110, 116, 97, 105, 110, 115>>,
     <<101, 110, 100, 115, 87, 105, 116, 104>>,
     <<109, 97, 116, 99, 104, 101, 115>>,
     <<115, 116, 97, 114, 116, 115, 87, 105, 116, 104>>,
     <<103, 101, 116, 68, 97, 116, 101>>,
     <<103, 101, 116, 68, 97, 121, 79, 102, 77, 111, 110, 116, 104>>,
     <<103, 101, 116, 68, 97, 121, 79, 102, 87, 101, 101, 107>>,
     <<103, 101, 116, 68, 97, 121, 79, 102, 89, 101, 97, 114>>,
     <<103, 101, 116, 70, 117, 108, 108, 89, 101, 97, 114>>,
     <<103, 101, 116, 72, 111, 117, 114, 115>>,
     <<103, 101, 116, 77, 105, 108, 108, 105, 115, 101, 99, 111, 110, 100, 115>>,
     <<103, 101, 116, 77, 105, 110, 117, 116, 101, 115>>,
     <<103, 101, 116, 77, 111, 110, 116, 104>>,
     <<103, 101, 116, 83, 101, 99, 111, 110, 100, 115>>
    }

is_builtin(name) == name \in BUILTINS

ModifiersOf(name) == IF is_builtin(name) THEN DEFAULT_LIBRARY ELSE 0

\* TokenCollector::push: the token is kept when it is not empty and ends within
\* the source.
push(tokens, source, start, end, token_type, token_modifiers) ==
    IF start < end /\ end <= StrLen(source)
    THEN Append(tokens, [start |-> start, length |-> end - start,
                         token_type |-> token_type,
                         token_modifiers |-> token_modifiers])
    ELSE tokens

push_punctuation(tokens, source, start, len) ==
    push(tokens, source, start, start + len, token_types_PUNCTUATION, 0)

\* TokenCollector::find_char for an ASCII char c: the offset of the first c in
\* source[start..end], or None.
find_char(source, start, end, c) ==
    LET hits == {i \in start..(end - 1) : At(as_bytes(source), i) = c}
    IN  IF hits = {} THEN None ELSE Min(hits)

\* The text of a binary operator.
OpStr(binary_op) ==
    CASE binary_op = "Add" -> <<43>>
      [] binary_op = "Sub" -> <<45>>
      [] binary_op = "Mul" -> <<42>>
      [] binary_op = "Div" -> <<47>>
      [] binary_op = "Mod" -> <<37>>
      [] binary_op = "Eq" -> <<61, 61>>
      [] binary_op = "Ne" -> <<33, 61>>
      [] binary_op = "Lt" -> <<60>>
      [] binary_op = "Le" -> <<60, 61>>
      [] binary_op = "Gt" -> <<62>>
      [] binary_op = "Ge" -> <<62, 61>>
      [] binary_op = "In" -> <<105, 110>>
      [] binary_op = "And" -> <<38, 38>>
      [] binary_op = "Or" -> <<124, 124>>

\* TokenCollector::find_operator: the text of the operator and the offset of its
\* first occurrence within source[start..end], or <<>> for None.
find_operator(source, start, end, binary_op) ==
    LET op_str == OpStr(binary_op)
        hits == {i \in start..(end - Len(op_str)) :
                    \A j \in 1..Len(op_str) : At(as_bytes(source), i + j - 1) = op_str[j]}
    IN  IF hits = {} THEN <<>> ELSE <<op_str, Min(hits) - start>>

\* if let Some(pos) = find_char(..) { push_punctuation(pos, 1) }.
PushFound(tokens, source, start, end, c) ==
    LET pos == find_char(source, start, end, c)
    IN  IF pos = None THEN tokens ELSE push_punctuation(tokens, source, pos, 1)

\* The loops over windows(2): a comma in each gap <<gap_start, gap_end>>.
RECURSIVE CommaLoop(_, _, _, _)
CommaLoop(tokens, source, gaps, k) ==
    IF k > Len(gaps) THEN tokens
    ELSE CommaLoop(PushFound(tokens, source, gaps[k][1], gaps[k][2], 44), source, gaps, k + 1)

\* The gaps between the consecutive expressions of items.
GapsOf(items) ==
    [k \in 1..(IF Len(items) = 0 THEN 0 ELSE Len(items) - 1) |->
        <<items[k].span[2], items[k + 1].span[1]>>]

\* The gaps between the value of a map entry and the key of the next.
EntryGapsOf(kids) ==
    [k \in 1..(IF Len(kids) < 2 THEN 0 ELSE (Len(kids) \div 2) - 1) |->
        <<kids[2 * k].span[2], kids[2 * k + 1].span[1]>>]

RECURSIVE visit_expr(_, _, _)
RECURSIVE VisitLoop(_, _, _, _)
RECURSIVE EntryLoop(_, _, _, _)
RECURSIVE FieldLoop(_, _, _, _)

\* for item in items { visit_expr(item) }, from kid k on.
VisitLoop(tokens, source, kids, k) ==
    IF k > Len(kids) THEN tokens
    ELSE VisitLoop(visit_expr(tokens, source, kids[k]), source, kids, k + 1)

\* The loop over the entries of a map, from the entry whose key is kid k on.
EntryLoop(tokens, source, kids, k) ==
    IF k + 1 > Len(kids) THEN tokens
    ELSE LET key == kids[k]
             value == kids[k + 1]
             t1 == visit_expr(tokens, source, key)
             t2 == PushFound(t1, source, key.span[2], value.span[1], 58)
         IN  EntryLoop(visit_expr(t2, source, value), source, kids, k + 2)

\* The loop over the fields of a struct, from field k on: the colon is looked for
\* from the end of the type name up to the value of the field.
FieldLoop(tokens, source, expr, k) ==
    IF k > Len(expr.names) THEN tokens
    ELSE LET value == expr.kids[k + 1]
             colon_pos == find_char(source, expr.kids[1].span[2], value.span[1], 58)
             field_name_start == IF colon_pos < StrLen(expr.names[k]) THEN 0
                                 ELSE colon_pos - StrLen(expr.names[k])
             t1 == IF colon_pos = None THEN tokens
                   ELSE push_punctuation(
                            push(tokens, source, field_name_start, colon_pos, token_types_VARIABLE, 0),
                            source, colon_pos, 1)
         IN  FieldLoop(visit_expr(t1, source, value), source, expr, k + 1)

\* The callee of a call.
VisitCallee(tokens, source, callee) ==
    IF callee.node = "Ident"
    THEN push(tokens, source, callee.span[1], callee.span[2], token_types_FUNCTION,
              ModifiersOf(callee.name))
    ELSE IF callee.node = "Member"
    THEN LET obj == callee.kids[1]
             t1 == visit_expr(tokens, source, obj)
             t2 == IF obj.span[2] < callee.span[2]
                   THEN push_punctuation(t1, source, obj.span[2], 1) ELSE t1
         IN  push(t2, source, callee.span[2] - StrLen(callee.name), callee.span[2], token_types_METHOD,
                  ModifiersOf(callee.name))
    ELSE visit_expr(tokens, source, callee)

\* TokenCollector::visit_expr: the tokens after the visit of expr.
visit_expr(tokens, source, expr) ==
    LET start == expr.span[1]
        end == expr.span[2]
        kids == expr.kids
    IN  CASE expr.node \in {"Null", "Bool"} -> push(tokens, source, start, end, token_types_KEYWORD, 0)
          [] expr.node \in {"Int", "UInt", "Float"} ->
                push(tokens, source, start, end, token_types_NUMBER, 0)
          [] expr.node \in {"String", "Bytes"} -> push(tokens, source, start, end, token_types_STRING, 0)
          [] expr.node \in {"Ident", "RootIdent"} ->
                push(tokens, source, start, end, token_types_VARIABLE, ModifiersOf(expr.name))
          [] expr.node = "List" ->
                push_punctuation(
                    CommaLoop(VisitLoop(push_punctuation(tokens, source, start, 1),
                                        source, kids, 1),
                              source, GapsOf(kids), 1),
                    source, end - 1, 1)
          [] expr.node = "Map" ->
                push_punctuation(
                    CommaLoop(EntryLoop(push_punctuation(tokens, source, start, 1),
                                        source, kids, 1),
                              source, EntryGapsOf(kids), 1),
                    source, end - 1, 1)
          [] expr.node = "Unary" ->
                visit_expr(push(tokens, source, start, start + 1, token_types_OPERATOR, 0),
                           source, kids[1])
          [] expr.node = "Binary" ->
                LET t1 == visit_expr(tokens, source, kids[1])
                    op_start == kids[1].span[2]
                    found == find_operator(source, op_start, kids[2].span[1], expr.op)
                    t2 == IF found = <<>> THEN t1
                          ELSE push(t1, source, op_start + found[2],
                                    op_start + found[2] + Len(found[1]), token_types_OPERATOR, 0)
                IN  visit_expr(t2, source, kids[2])
          [] expr.node = "Ternary" ->
                LET t1 == visit_expr(tokens, source, kids[1])
                    t2 == PushFound(t1, source, kids[1].span[2], kids[2].span[1], 63)
                    t3 == visit_expr(t2, source, kids[2])
                    t4 == PushFound(t3, source, kids[2].span[2], kids[3].span[1], 58)
                IN  visit_expr(t4, source, kids[3])
          [] expr.node = "Member" ->
                LET t1 == visit_expr(tokens, source, kids[1])
                    t2 == IF kids[1].span[2] < end
                          THEN push_punctuation(t1, source, kids[1].span[2], 1) ELSE t1
                IN  push(t2, source, end - StrLen(expr.name), end, token_types_VARIABLE, 0)
          [] expr.node = "Index" ->
                LET t1 == visit_expr(tokens, source, kids[1])
                    t2 == PushFound(t1, source, kids[1].span[2], kids[2].span[1], 91)
                IN  push_punctuation(visit_expr(t2, source, kids[2]), source, end - 1, 1)
          [] expr.node = "Call" ->
                LET t1 == VisitCallee(tokens, source, kids[1])
                    t2 == PushFound(t1, source, kids[1].span[2], end, 40)
                    t3 == VisitLoop(t2, source, kids, 2)
                    t4 == CommaLoop(t3, source, GapsOf(Tail(kids)), 1)
                IN  push_punctuation(t4, source, end - 1, 1)
          [] expr.node = "Struct" ->
                LET t1 == visit_expr(tokens, source, kids[1])
                    t2 == PushFound(t1, source, kids[1].span[2], end, 123)
                    t3 == FieldLoop(t2, source, expr, 1)
                    t4 == CommaLoop(t3, source, GapsOf(Tail(kids)), 1)
                IN  push_punctuation(t4, source, end - 1, 1)
          [] expr.node = "Comprehension" -> VisitLoop(tokens, source, kids, 1)
          [] expr.node = "MemberTestOnly" ->
                LET has_end == start + 3
                    t1 == push(tokens, source, start, has_end, token_types_FUNCTION, DEFAULT_LIBRARY)
                    t2 == PushFound(t1, source, has_end, kids[1].span[1], 40)
                    t3 == visit_expr(t2, source, kids[1])
                    t4 == PushFound(t3, source, kids[1].span[2], end, 46)
                    field_start == end - 1 - StrLen(expr.name)
                    t5 == push(t4, source, field_start, field_start + StrLen(expr.name),
                               token_types_VARIABLE, 0)
                IN  push_punctuation(t5, source, end - 1, 1)
          [] expr.node = "Bind" -> VisitLoop(tokens, source, kids, 1)
          [] OTHER -> tokens


\* sort_by_key(|t| t.start) with every token left where the walk pushed it.
sort_by_key_kept(tokens) == tokens

\* The place of a token among the sorted ones: after those that start no later.
InsertByStart(sorted, token) ==
    LET before == Cardinality({i \in 1..Len(sorted) : sorted[i].start <= token.start})
    IN  SubSeq(sorted, 1, before) \o <<token>> \o SubSeq(sorted, before + 1, Len(sorted))

RECURSIVE SortLoop(_, _, _)
SortLoop(sorted, tokens, k) ==
    IF k > Len(tokens) THEN sorted
    ELSE SortLoop(InsertByStart(sorted, tokens[k]), tokens, k + 1)

\* Vec::sort_by_key(|t| t.start): stable, by start.
sort_by_key(tokens) == SortLoop(<<>>, tokens, 1)

\* u32 subtraction.  The difference is a - b when it does not underflow; the
\* wrapped result 2^32 - (b - a) of an underflow is written as the negative
\* number a - b, which is no u32.
SubU32(a, b) == a - b

\* encode_tokens with delta_start always relative to the previous token.
RECURSIVE EncodeLoopRelative(_, _, _, _, _)
EncodeLoopRelative(tokens, line_index, k, prev_line, prev_start) ==
    IF k > Len(tokens) THEN <<>>
    ELSE LET pos == offset_to_position(line_index, tokens[k].start)
         IN  <<[delta_line |-> SubU32(pos[1], prev_line),
                delta_start |-> SubU32(pos[2], prev_start),
                length |-> tokens[k].length,
                token_type |-> tokens[k].token_type,
                token_modifiers_bitset |-> tokens[k].token_modifiers]>>
             \o EncodeLoopRelative(tokens, line_index, k + 1, pos[1], pos[2])

encode_tokens_relative(tokens, line_index) ==
    EncodeLoopRelative(tokens, line_index, 1, 0, 0)

\* The loop of encode_tokens from token k on.
RECURSIVE EncodeLoop(_, _, _, _, _)
EncodeLoop(tokens, line_index, k, prev_line, prev_start) ==
    IF k > Len(tokens) THEN <<>>
    ELSE LET pos == offset_to_position(line_index, tokens[k].start)
             delta_line == SubU32(pos[1], prev_line)
             delta_start == IF delta_line = 0 THEN SubU32(pos[2], prev_start) ELSE pos[2]
         IN  <<[delta_line |-> delta_line, delta_start |-> delta_start,
                length |-> tokens[k].length,
                token_type |-> tokens[k].token_type,
                token_modifiers_bitset |-> tokens[k].token_modifiers]>>
             \o EncodeLoop(tokens, line_index, k + 1, pos[1], pos[2])

\* encode_tokens, and the loop of into_semantic_tokens, which is the same.
encode_tokens(tokens, line_index) == EncodeLoop(tokens, line_index, 1, 0, 0)

\* TokenCollector::into_semantic_tokens.
into_semantic_tokens(tokens, line_index) == encode_tokens(sort_by_key(tokens), line_index)

\* tokens_for_ast, with the tokens of the walk and the sorted tokens kept beside
\* the result.
tokens_for_ast(line_index, ast) ==
    LET tokens == visit_expr(<<>>, line_index.source, ast)
    IN  [walked |-> <<[source |-> line_index.source, tokens |-> tokens]>>,
         sorted |-> sort_by_key(tokens),
         data |-> into_semantic_tokens(tokens, line_index)]

\* The inner loop of tokens_for_proto: the tokens of one region at their host
\* start.
HostTokens(region_state, tokens) ==
    [i \in 1..Len(tokens) |->
        [tokens[i] EXCEPT !.start = to_host(region_state.mapper, tokens[i].start)]]

\* The loop of tokens_for_proto over the regions from k on: the walks.
RECURSIVE WalkedFrom(_, _)
WalkedFrom(region_states, k) ==
    IF k > Len(region_states) THEN <<>>
    ELSE (IF region_states[k].ast.node = "None" THEN <<>>
          ELSE <<[source |-> region_states[k].region.source,
                  mapper |-> region_states[k].mapper,
                  tokens |-> visit_expr(<<>>, region_states[k].region.source,
                                        region_states[k].ast)]>>)
         \o WalkedFrom(region_states, k + 1)

RECURSIVE AllTokensFrom(_, _)
AllTokensFrom(walked, k) ==
    IF k > Len(walked) THEN <<>>
    ELSE HostTokens(walked[k], walked[k].tokens) \o AllTokensFrom(walked, k + 1)

\* tokens_for_proto, with the tokens of the walks and the sorted tokens kept
\* beside the result.
tokens_for_proto(line_index, region_states) ==
    LET walked == WalkedFrom(region_states, 1)
        sorted == sort_by_key(AllTokensFrom(walked, 1))
    IN  [walked |-> walked, sorted |-> sorted, data |-> encode_tokens(sorted, line_index)]


-----------------------------------------------------------------------------
(* The expressions of the model.  cel_core's parser is not part of the     *)
(* repository: a parsed expression is built together with its text, so that *)
(* every span is the place of the node in the text.                        *)

\* No expression (Option::None).
NoAst == [node |-> "None"]

Expr(node, span, name, binary_op, names, kids) ==
    [node |-> node, span |-> span, name |-> name, op |-> binary_op, names |-> names,
     kids |-> kids]

\* The expression moved d bytes to the right.
RECURSIVE Shift(_, _)
Shift(expr, d) ==
    [expr EXCEPT !.span = <<expr.span[1] + d, expr.span[2] + d>>,
                 !.kids = [i \in 1..Len(expr.kids) |-> Shift(expr.kids[i], d)]]

\* A piece of text that is no expression of its own.
Lit(text) == [text |-> text, ast |-> NoAst]

\* A node without sub-expressions.
Leaf(node, text, name) ==
    [text |-> text, ast |-> Expr(node, <<0, StrLen(text)>>, name, "", <<>>, <<>>)]

\* A node the parser makes up (a macro expansion): it has no text of its own.
Synthetic(node, name) == [text |-> <<>>, ast |-> Expr(node, <<0, 0>>, name, "", <<>>, <<>>)]

RECURSIVE TextFrom(_, _)
TextFrom(parts, k) == IF k > Len(parts) THEN <<>> ELSE parts[k].text \o TextFrom(parts, k + 1)

RECURSIVE KidsFrom(_, _, _)
KidsFrom(parts, k, at) ==
    IF k > Len(parts) THEN <<>>
    ELSE (IF parts[k].ast.node = "None" THEN <<>> ELSE <<Shift(parts[k].ast, at)>>)
         \o KidsFrom(parts, k + 1, at + StrLen(parts[k].text))

\* The node whose text is the texts of the parts in a row.
Compose(node, name, binary_op, names, parts) ==
    [text |-> TextFrom(parts, 1),
     ast |-> Expr(node, <<0, StrLen(TextFrom(parts, 1))>>, name, binary_op, names,
                  KidsFrom(parts, 1, 0))]

Int1 == Leaf("Int", <<49>>, <<>>)
IdentX == Leaf("Ident", <<120>>, <<120>>)
BoolTrue == Leaf("Bool", <<116, 114, 117, 101>>, <<>>)
NullLeaf == Leaf("Null", <<110, 117, 108, 108>>, <<>>)
\* "é": two bytes, one UTF-16 unit.
StringAccent == Leaf("String", <<34, 233, 34>>, <<>>)
\* An astral char: four bytes, two UTF-16 units.
StringAstral == Leaf("String", <<34, 128512, 34>>, <<>>)

Operands == {Int1, IdentX, StringAccent, StringAstral}
FewOperands == {IdentX, StringAstral}
Spaces == {<<32>>, <<10>>}

UnaryOf(a) == Compose("Unary", <<>>, "", <<>>, <<Lit(<<45>>), a>>)

BinaryOf(a, ws, binary_op, b) ==
    Compose("Binary", <<>>, binary_op, <<>>, <<a, Lit(ws \o OpStr(binary_op) \o ws), b>>)

TernaryOf(a, ws, b, c) ==
    Compose("Ternary", <<>>, "", <<>>,
            <<a, Lit(ws \o <<63, 32>>), b, Lit(ws \o <<58, 32>>), c>>)

ListOf(items) ==
    Compose("List", <<>>, "", <<>>,
            <<Lit(<<91>>)>>
            \o Concat([k \in 1..Len(items) |->
                          IF k = 1 THEN <<items[k]>> ELSE <<Lit(<<44, 32>>), items[k]>>], 1)
            \o <<Lit(<<93>>)>>)

MapOf(entries) ==
    Compose("Map", <<>>, "", <<>>,
            <<Lit(<<123>>)>>
            \o Concat([k \in 1..Len(entries) |->
                          (IF k = 1 THEN <<>> ELSE <<Lit(<<44, 10>>)>>)
                          \o <<entries[k][1], Lit(<<58, 32>>), entries[k][2]>>], 1)
            \o <<Lit(<<125>>)>>)

MemberOf(a, field) == Compose("Member", field, "", <<>>, <<a, Lit(<<46>> \o field)>>)

IndexOf(a, b) == Compose("Index", <<>>, "", <<>>, <<a, Lit(<<91>>), b, Lit(<<93>>)>>)

CallOf(callee, args) ==
    Compose("Call", <<>>, "", <<>>,
            <<callee, Lit(<<40>>)>>
            \o Concat([k \in 1..Len(args) |->
                          IF k = 1 THEN <<args[k]>> ELSE <<Lit(<<44, 10>>), args[k]>>], 1)
            \o <<Lit(<<41>>)>>)

StructOf(type_name, names, values) ==
    Compose("Struct", <<>>, "", names,
            <<type_name, Lit(<<123>>)>>
            \o Concat([k \in 1..Len(values) |->
                          <<Lit((IF k = 1 THEN <<>> ELSE <<44, 32>>) \o names[k]
                                \o <<58, 32>>),
                            values[k]>>], 1)
            \o <<Lit(<<125>>)>>)

\* has(a.field).
MemberTestOnlyOf(a, field) ==
    Compose("MemberTestOnly", field, "", <<>>,
            <<Lit(<<104, 97, 115, 40>>), a, Lit(<<46>> \o field \o <<41>>)>>)

\* a.all(x, p): the range and the step are in the text, the accumulator, the
\* condition and the result are made up.
ComprehensionOf(a, p) ==
    Compose("Comprehension", <<>>, "", <<>>,
            <<a, Synthetic("Bool", <<>>), Synthetic("Ident", <<97, 99, 99, 117>>),
              Lit(<<46, 97, 108, 108, 40, 120, 44, 32>>), p, Lit(<<41>>), Synthetic("Ident", <<97, 99, 99, 117>>)>>)

\* cel.bind(x, a, b).
BindOf(a, b) ==
    Compose("Bind", <<>>, "", <<>>,
            <<Lit(<<99, 101, 108, 46, 98, 105, 110, 100, 40, 120, 44, 32>>), a, Lit(<<44, 32>>), b, Lit(<<41>>)>>)

\* An expression the parser recovered from: "1 + " with an error node at the end.
ErrorOf(a) ==
    Compose("Binary", <<>>, "Add", <<>>,
            <<a, Lit(<<32, 43, 32>>), [text |-> <<>>, ast |-> Expr("Error", <<0, 0>>, <<>>, "",
                                                               <<>>, <<>>)]>>)

FieldF == <<102>>
FieldG == <<103>>
IdentSize == Leaf("Ident", <<115, 105, 122, 101>>, <<115, 105, 122, 101>>)
IdentT == Leaf("Ident", <<84>>, <<84>>)
Contains == <<99, 111, 110, 116, 97, 105, 110, 115>>

Binaries ==
    {BinaryOf(a, ws, binary_op, b) :
        a \in Operands, ws \in Spaces, binary_op \in {"Add", "Le", "In"}, b \in Operands}

Lists ==
    {ListOf(<<>>)} \cup {ListOf(<<a>>) : a \in Operands}
    \cup {ListOf(<<a, b>>) : a \in Operands, b \in Operands}

Calls ==
    {CallOf(IdentSize, <<a>>) : a \in Operands}
    \cup {CallOf(IdentSize, <<a, b>>) : a \in FewOperands, b \in FewOperands}
    \cup {CallOf(MemberOf(a, Contains), <<b>>) : a \in Operands, b \in Operands}
    \cup {CallOf(IndexOf(a, Int1), <<>>) : a \in FewOperands}

Nested ==
    {BinaryOf(a, <<10>>, "Add", b) : a \in {ListOf(<<Int1, StringAstral>>),
                                            MemberOf(MemberOf(IdentX, FieldF), FieldG)},
                                     b \in {CallOf(MemberOf(StringAstral, Contains),
                                                   <<IdentX>>),
                                            UnaryOf(Int1)}}

\* The expressions of the annotations of the model, with the two string literals
\* given.
ProtoCelsOf(accent, astral) ==
    {Int1, BinaryOf(IdentX, <<32>>, "Le", Int1), BinaryOf(Int1, <<10>>, "Add", astral),
     ListOf(<<accent, IdentX>>), CallOf(MemberOf(astral, Contains), <<IdentX>>)}

\* The string literals as extract_string_literal hands them on: every byte of the
\* host text a char of its own.
StringAccentRead == Leaf("String", <<34>> \o as_bytes(<<233>>) \o <<34>>, <<>>)
StringAstralRead == Leaf("String", <<34>> \o as_bytes(<<128512>>) \o <<34>>, <<>>)

\* The parsed expressions of the model, with their texts.
Parsed ==
    {BoolTrue, NullLeaf} \cup Operands
    \cup ProtoCelsOf(StringAccentRead, StringAstralRead)
    \cup {UnaryOf(a) : a \in Operands}
    \cup Binaries
    \cup {TernaryOf(a, ws, b, c) : a \in FewOperands, ws \in Spaces, b \in FewOperands,
                                   c \in FewOperands}
    \cup Lists
    \cup {MapOf(<<<<a, b>>>>) : a \in FewOperands, b \in FewOperands}
    \cup {MapOf(<<<<a, b>>, <<b, a>>>>) : a \in FewOperands, b \in FewOperands}
    \cup {MemberOf(a, FieldF) : a \in Operands}
    \cup {IndexOf(a, b) : a \in Operands, b \in Operands}
    \cup Calls
    \cup {StructOf(IdentT, <<FieldF>>, <<a>>) : a \in Operands}
    \cup {StructOf(IdentT, <<FieldF, FieldG>>, <<a, b>>) : a \in FewOperands,
                                                          b \in FewOperands}
    \cup {MemberTestOnlyOf(a, FieldF) : a \in {IdentX, MemberOf(IdentX, FieldG)}}
    \cup {ComprehensionOf(ListOf(<<a>>), b) : a \in FewOperands, b \in FewOperands}
    \cup {BindOf(a, b) : a \in FewOperands, b \in FewOperands}
    \cup {ErrorOf(a) : a \in FewOperands}
    \cup Nested


-----------------------------------------------------------------------------
(* Semantic tokens of a document: Backend::semantic_tokens_full.           *)

\* The ast of the parse result of a source of the model.
ParseOf(source) ==
    IF \E p \in Parsed : p.text = source
    THEN (CHOOSE p \in Parsed : p.text = source).ast
    ELSE NoAst

\* CelRegionState::with_context, as far as the tokens read it.
RegionWithAst(r) ==
    [region |-> r.region, mapper |-> r.mapper, ast |-> ParseOf(r.region.source)]

\* The text as the body of a proto string literal: quotes and backslashes
\* escaped, a line feed written \n.
RECURSIVE ProtoLiteral(_)
ProtoLiteral(text) ==
    IF text = <<>> THEN <<>>
    ELSE (IF Head(text) \in {34, 92} THEN <<92, Head(text)>>
          ELSE IF Head(text) = 10 THEN <<92, 110>>
          ELSE <<Head(text)>>)
         \o ProtoLiteral(Tail(text))

\* The field annotation whose expression is the text.
AnnotationOf(text) == LitPrefix \o ProtoLiteral(text) \o LitSuffix

\* The expressions written in the annotations of the model.
ProtoCels == ProtoCelsOf(StringAccent, StringAstral)

\* The proto texts of the model: one annotation, or two on one line or on two.
TokenHosts ==
    {AnnotationOf(p.text) : p \in ProtoCels}
    \cup {AnnotationOf(p.text) \o ws \o AnnotationOf(q.text) :
             p \in ProtoCels, q \in ProtoCels, ws \in Spaces}

\* The regions in the order of the text, or the other way round.
Reverse(seq) == [i \in 1..Len(seq) |-> seq[Len(seq) + 1 - i]]

InitTokens ==
    /\ \/ \E p \in Parsed :
            /\ host = p.text
            /\ arg = p.ast
            /\ regions = <<>>
            /\ op = "Cel"
       \/ \E h \in TokenHosts : \E states \in {ProtoDocumentStateNew(h, 0).regions} :
          \E stored \in {[i \in 1..Len(states) |-> RegionWithAst(states[i])]} :
            /\ host = h
            /\ arg = NoAst
            /\ regions \in {stored, Reverse(stored)}
            /\ op = "Proto"
    /\ index = LineIndexNew(host)
    /\ ret = None
    /\ walk = NoWalk
    /\ StoreInit

\* semantic_tokens_full for a CEL document that has an ast.
TokensForAst ==
    /\ op = "Cel"
    /\ arg.node # "None"
    /\ ret' = tokens_for_ast(index, arg)
    /\ op' = "tokens_for_ast"
    /\ UNCHANGED <<host, regions, arg, walk, index>>
    /\ UNCHANGED store_vars

\* semantic_tokens_full for a proto document.
TokensForProto ==
    /\ op = "Proto"
    /\ ret' = tokens_for_proto(index, regions)
    /\ op' = "tokens_for_proto"
    /\ UNCHANGED <<host, regions, arg, walk, index>>
    /\ UNCHANGED store_vars

NextTokens == TokensForAst \/ TokensForProto

SpecTokens == InitTokens /\ [][NextTokens]_vars

\* The call of semantic_tokens_full has returned its tokens.
TokensDone == op \in {"tokens_for_ast", "tokens_for_proto"}

\* C17: every token collected by the walk of an expression has length >= 1 and
\* ends within the source walked, and the tokens handed to the delta encoding are
\* in non-decreasing order of start.
C17_TokenBounds ==
    TokensDone =>
        /\ \A w \in 1..Len(ret.walked) : \A i \in 1..Len(ret.walked[w].tokens) :
               LET token == ret.walked[w].tokens[i]
               IN  /\ token.length >= 1
                   /\ token.start + token.length <= StrLen(ret.walked[w].source)
        /\ \A k \in 1..(Len(ret.sorted) - 1) : ret.sorted[k].start <= ret.sorted[k + 1].start

\* C17 witness: the list [1, "..."], whose comma the walk pushes after both
\* items: five tokens, sorted for the encoding.
C17_Witness ==
    /\ op = "tokens_for_ast"
    /\ host = ListOf(<<Int1, StringAstral>>).text
    /\ Len(ret.sorted) = 5
    /\ ret.walked[1].tokens # ret.sorted
    /\ ret.walked[1].tokens[4].start < ret.walked[1].tokens[3].start


\* The decoding of the deltas by cumulative sums, from token k on: the position
\* of every token.
RECURSIVE DecodeLoop(_, _, _, _)
DecodeLoop(data, k, line, start) ==
    IF k > Len(data) THEN <<>>
    ELSE LET new_line == line + data[k].delta_line
             new_start == IF data[k].delta_line = 0 THEN start + data[k].delta_start
                          ELSE data[k].delta_start
         IN  <<<<new_line, new_start>>>> \o DecodeLoop(data, k + 1, new_line, new_start)

Decode(data) == DecodeLoop(data, 1, 0, 0)

\* The positions of the starts of the sorted tokens.
PositionsOf(sorted) ==
    [k \in 1..Len(sorted) |-> offset_to_position(index, sorted[k].start)]

\* C18: no delta of the encoding underflows, and the decoding of the deltas by
\* cumulative sums gives back offset_to_position(start) of every sorted token,
\* in order; for a proto document the sorted tokens are those of all the regions,
\* by host start, whatever the order of the regions.
C18_DeltaRoundTrip ==
    TokensDone =>
        /\ Len(ret.data) = Len(ret.sorted)
        /\ \A k \in 1..Len(ret.data) :
               ret.data[k].delta_line >= 0 /\ ret.data[k].delta_start >= 0
        /\ Decode(ret.data) = PositionsOf(ret.sorted)
        /\ \A k \in 1..(Len(ret.sorted) - 1) : ret.sorted[k].start <= ret.sorted[k + 1].start
        /\ op = "tokens_for_proto" =>
               \A w \in 1..Len(ret.walked) : \A i \in 1..Len(ret.walked[w].tokens) :
                   \E k \in 1..Len(ret.sorted) :
                       ret.sorted[k] = HostTokens(ret.walked[w], ret.walked[w].tokens)[i]

\* C18 witness: a proto document of two annotations on two lines whose regions
\* are stored last first; the second annotation's expression has a line feed
\* and an astral char: the tokens of both regions are encoded, the last ones
\* with a delta_line.
C18_Witness ==
    /\ op = "tokens_for_proto"
    /\ host = AnnotationOf(ListOf(<<StringAccent, IdentX>>).text) \o <<10>>
              \o AnnotationOf(BinaryOf(Int1, <<10>>, "Add", StringAstral).text)
    /\ Len(regions) = 2
    /\ regions[1].mapper.host_offset > regions[2].mapper.host_offset
    /\ Len(ret.walked) = 2
    /\ Len(ret.data) = 8
    /\ ret.data[6].delta_line = 1
    /\ ret.data[7].delta_line = 0 /\ ret.data[7].delta_start > 0


-----------------------------------------------------------------------------
(* Completion (lsp/completion.rs).  A type is a string: "String", "Int",    *)
(* "Double", "List", "Dyn", or the name of a message.  An environment is a  *)
(* record [variables, standalone_functions, methods, messages]: the         *)
(* variables as <<name, type>>, the methods as overloads [name, receiver,   *)
(* args, result], the messages of the proto registry as [name, fields],     *)
(* fields as <<name, type>>.                                                *)

\* __cel_complete__
PLACEHOLDER == <<95, 95, 99, 101, 108, 95, 99, 111, 109, 112, 108, 101, 116, 101, 95, 95>>

MACROS == <<<<104, 97, 115>>, <<97, 108, 108>>, <<101, 120, 105, 115, 116, 115>>, <<101, 120, 105, 115, 116, 115, 95, 111, 110, 101>>, <<102, 105, 108, 116, 101, 114>>, <<109, 97, 112>>>>

\* The keys of PROTOVALIDATE_BUILTINS.
PROTOVALIDATE_BUILTINS ==
    {<<105, 115, 69, 109, 97, 105, 108>>,
     <<105, 115, 72, 111, 115, 116, 110, 97, 109, 101>>,
     <<105, 115, 73, 112>>,
     <<105, 115, 73, 112, 80, 114, 101, 102, 105, 120>>,
     <<105, 115, 85, 114, 105>>,
     <<105, 115, 85, 114, 105, 82, 101, 102>>,
     <<117, 110, 105, 113, 117, 101>>,
     <<105, 115, 78, 97, 110>>,
     <<105, 115, 73, 110, 102>>}

\* u8::is_ascii_alphanumeric, or an underscore.
IsIdentByte(b) == b \in 48..57 \/ b \in 65..90 \/ b \in 97..122 \/ b = 95

\* char::to_lowercase and str::to_lowercase, on ASCII.
ToLowerChar(ch) == IF ch \in 65..90 THEN ch + 32 ELSE ch

to_lowercase(s) == [i \in 1..Len(s) |-> ToLowerChar(s[i])]

starts_with(s, prefix) ==
    Len(prefix) <= Len(s) /\ SubSeq(s, 1, Len(prefix)) = prefix

\* str::trim_end, on ASCII white space.
RECURSIVE trim_end(_)
trim_end(s) ==
    IF s # <<>> /\ s[Len(s)] \in {32, 9, 10, 13} THEN trim_end(SubSeq(s, 1, Len(s) - 1)) ELSE s

\* The count of take_while over the reversed bytes of before.
RECURSIVE IdentRun(_)
IdentRun(before) ==
    IF before # <<>> /\ IsIdentByte(before[Len(before)])
    THEN 1 + IdentRun(SubSeq(before, 1, Len(before) - 1))
    ELSE 0

\* detect_context without the trimming of the white space before the prefix.
detect_context_untrimmed(source, offset) ==
    LET before == SubSeq(source, 1, offset)
        ident_start == IdentRun(before)
        prefix == SubSeq(before, Len(before) - ident_start + 1, Len(before))
        untrimmed == SubSeq(before, 1, Len(before) - ident_start)
    IN  IF untrimmed # <<>> /\ untrimmed[Len(untrimmed)] = 46
        THEN [context |-> "MemberAccess", prefix |-> prefix]
        ELSE [context |-> "Identifier", prefix |-> prefix]

\* detect_context, on a source of ASCII chars.
detect_context(source, offset) ==
    LET before == SubSeq(source, 1, offset)
        ident_start == IdentRun(before)
        prefix == SubSeq(before, Len(before) - ident_start + 1, Len(before))
        trimmed == trim_end(SubSeq(before, 1, Len(before) - ident_start))
    IN  IF trimmed # <<>> /\ trimmed[Len(trimmed)] = 46
        THEN [context |-> "MemberAccess", prefix |-> prefix]
        ELSE [context |-> "Identifier", prefix |-> prefix]

RECURSIVE find_placeholder_member(_)
RECURSIVE FindMap(_, _)

\* Iterator::find_map(find_placeholder_member) over the expressions from k on,
\* and the chains of or_else.
FindMap(kids, k) ==
    IF k > Len(kids) THEN NoAst
    ELSE LET found == find_placeholder_member(kids[k])
         IN  IF found.node # "None" THEN found ELSE FindMap(kids, k + 1)

\* find_placeholder_member: the first member node whose field is the placeholder.
find_placeholder_member(ast) ==
    CASE ast.node \in {"Member", "MemberTestOnly"} ->
            IF ast.name = PLACEHOLDER THEN ast ELSE find_placeholder_member(ast.kids[1])
      [] ast.node \in {"Call", "Binary", "Unary", "Ternary", "Index", "List", "Map",
                       "Comprehension", "Bind"} -> FindMap(ast.kids, 1)
      [] ast.node = "Struct" -> FindMap(Tail(ast.kids), 1)
      [] OTHER -> NoAst

\* get_receiver_id: the receiver of the placeholder member.
get_receiver_id(node) ==
    IF node.node \in {"Member", "MemberTestOnly"} /\ node.name = PLACEHOLDER
    THEN node.kids[1] ELSE NoAst


(* Env::parse and Env::check are code of the crate cel_core, which is not   *)
(* part of this repository.  They are modelled on the fragment of CEL the   *)
(* completion texts are written in: identifiers read to their longest       *)
(* extent (a letter or underscore, then letters, digits and underscores),   *)
(* member selection, member calls, global calls, and the macro has(e.f).    *)
(* A text outside the fragment has no ast.                                  *)

IsIdentStart(b) == b \in 65..90 \/ b \in 97..122 \/ b = 95

\* The offset after the identifier bytes that start at offset k.
RECURSIVE IdentEnd(_, _)
IdentEnd(text, k) ==
    IF k < Len(text) /\ IsIdentByte(text[k + 1]) THEN IdentEnd(text, k + 1) ELSE k

\* The tokens of the text from offset k on.
RECURSIVE Lex(_, _)
Lex(text, k) ==
    IF k >= Len(text) THEN <<>>
    ELSE IF text[k + 1] \in {32, 9, 10, 13} THEN Lex(text, k + 1)
    ELSE IF IsIdentStart(text[k + 1])
         THEN <<[kind |-> "Ident", text |-> SubSeq(text, k + 1, IdentEnd(text, k)),
                 start |-> k, end |-> IdentEnd(text, k)]>>
              \o Lex(text, IdentEnd(text, k))
    ELSE <<[kind |-> "Punct", text |-> <<text[k + 1]>>, start |-> k, end |-> k + 1]>>
         \o Lex(text, k + 1)

NoParse == [ok |-> FALSE]

IsPunct(toks, k, b) == k <= Len(toks) /\ toks[k].kind = "Punct" /\ toks[k].text = <<b>>

\* A global call; has(e.f) is expanded into the test of the field f of e.
GlobalCall(callee, args, end) ==
    IF callee.name = <<104, 97, 115>> /\ Len(args) = 1 /\ args[1].node = "Member"
    THEN Expr("MemberTestOnly", <<callee.span[1], end>>, args[1].name, "", <<>>,
              args[1].kids)
    ELSE Expr("Call", <<callee.span[1], end>>, <<>>, "", <<>>, <<callee>> \o args)

RECURSIVE ParseExpr(_, _)
RECURSIVE ParsePostfix(_, _, _)
RECURSIVE ParseArgs(_, _)

\* The arguments of a call from token k on, up to the closing parenthesis.
ParseArgs(toks, k) ==
    LET first == ParseExpr(toks, k)
    IN  IF ~first.ok THEN NoParse
        ELSE IF IsPunct(toks, first.next, 41)
             THEN [ok |-> TRUE, args |-> <<first.ast>>, next |-> first.next + 1]
        ELSE IF IsPunct(toks, first.next, 44)
             THEN LET rest == ParseArgs(toks, first.next + 1)
                  IN  IF ~rest.ok THEN NoParse
                      ELSE [ok |-> TRUE, args |-> <<first.ast>> \o rest.args,
                            next |-> rest.next]
        ELSE NoParse

\* The selections and calls that follow the expression recv.
ParsePostfix(toks, recv, k) ==
    IF ~IsPunct(toks, k, 46) THEN [ok |-> TRUE, ast |-> recv, next |-> k]
    ELSE IF ~(k + 1 <= Len(toks) /\ toks[k + 1].kind = "Ident") THEN NoParse
    ELSE LET member == Expr("Member", <<recv.span[1], toks[k + 1].end>>,
                            toks[k + 1].text, "", <<>>, <<recv>>)
         IN  IF ~IsPunct(toks, k + 2, 40) THEN ParsePostfix(toks, member, k + 2)
             ELSE IF IsPunct(toks, k + 3, 41)
                  THEN ParsePostfix(toks,
                                    Expr("Call", <<recv.span[1], toks[k + 3].end>>, <<>>,
                                         "", <<>>, <<member>>),
                                    k + 4)
             ELSE LET a == ParseArgs(toks, k + 3)
                  IN  IF ~a.ok THEN NoParse
                      ELSE ParsePostfix(toks,
                                        Expr("Call",
                                             <<recv.span[1], toks[a.next - 1].end>>, <<>>,
                                             "", <<>>, <<member>> \o a.args),
                                        a.next)

ParseExpr(toks, k) ==
    IF ~(k <= Len(toks) /\ toks[k].kind = "Ident") THEN NoParse
    ELSE LET ident == Expr("Ident", <<toks[k].start, toks[k].end>>, toks[k].text, "",
                           <<>>, <<>>)
         IN  IF ~IsPunct(toks, k + 1, 40) THEN ParsePostfix(toks, ident, k + 1)
             ELSE IF IsPunct(toks, k + 2, 41)
                  THEN ParsePostfix(toks, GlobalCall(ident, <<>>, toks[k + 2].end), k + 3)
             ELSE LET a == ParseArgs(toks, k + 2)
                  IN  IF ~a.ok THEN NoParse
                      ELSE ParsePostfix(toks,
                                        GlobalCall(ident, a.args, toks[a.next - 1].end),
                                        a.next)

\* Env::parse(text).ast.
parse(text) ==
    LET toks == Lex(text, 0)
        parsed == ParseExpr(toks, 1)
    IN  IF parsed.ok /\ parsed.next = Len(toks) + 1 THEN parsed.ast ELSE NoAst

\* The types of the model.
TypeOf(kind, name) == [kind |-> kind, name |-> name]

CelType_String == TypeOf("String", <<115, 116, 114, 105, 110, 103>>)
CelType_Int == TypeOf("Int", <<105, 110, 116>>)
CelType_Bool == TypeOf("Bool", <<98, 111, 111, 108>>)
CelType_Dyn == TypeOf("Dyn", <<100, 121, 110>>)
NoType == TypeOf("None", <<>>)

\* CelType::Message(name).
CelType_Message(name) == TypeOf("Message", name)

\* The pair of the sequence whose first component is the key, or <<>>.
RECURSIVE Lookup(_, _)
Lookup(pairs, key) ==
    IF pairs = <<>> THEN <<>>
    ELSE IF Head(pairs)[1] = key THEN Head(pairs) ELSE Lookup(Tail(pairs), key)

\* ProtoRegistry::message_field_names: the fields of the message, or <<>> for a
\* message the registry does not know.
message_fields(env, msg_name) ==
    LET found == Lookup(env.messages, msg_name)
    IN  IF found = <<>> THEN <<>> ELSE found[2]

\* CheckResult::type_map.get(id) for the node itself: the type of a declared
\* variable and of a declared field of a message; no entry otherwise.
RECURSIVE type_map(_, _)
type_map(env, expr) ==
    CASE expr.node = "Ident" ->
            LET found == Lookup(env.variables, expr.name)
            IN  IF found = <<>> THEN NoType ELSE found[2]
      [] expr.node = "Member" ->
            LET receiver == type_map(env, expr.kids[1])
                found == IF receiver.kind = "Message"
                         THEN Lookup(message_fields(env, receiver.name), expr.name)
                         ELSE <<>>
            IN  IF found = <<>> THEN NoType ELSE found[2]
      [] OTHER -> NoType

\* The text that resolve_receiver_type parses.
modified(source, offset, prefix_len) ==
    SubSeq(source, 1, offset - prefix_len) \o PLACEHOLDER
    \o SubSeq(source, offset + 1, Len(source))

\* resolve_receiver_type: the type of the receiver of the placeholder, or NoType.
resolve_receiver_type(source, offset, prefix_len, env) ==
    LET ast == parse(modified(source, offset, prefix_len))
    IN  IF ast.node = "None" THEN NoType
        ELSE LET member_node == find_placeholder_member(ast)
             IN  IF member_node.node = "None" THEN NoType
                 ELSE LET receiver_id == get_receiver_id(member_node)
                      IN  IF receiver_id.node = "None" THEN NoType
                          ELSE type_map(env, receiver_id)


\* CelType::display_name.
display_name(type) == type.name

\* An overload of a member function: arg_types() is args.
Overload(name, receiver, args, result) ==
    [name |-> name, receiver |-> receiver, args |-> args, result |-> result]

\* Env::methods_for_type: the member overloads whose receiver the type can be.
methods_for_type(env, receiver_type) ==
    SelectSeq(env.methods,
              LAMBDA m : \/ m.receiver = receiver_type
                         \/ m.receiver.kind = "Dyn"
                         \/ receiver_type.kind = "Dyn")

\* The strings joined with ", " between them.
RECURSIVE join(_)
join(strings) ==
    IF strings = <<>> THEN <<>>
    ELSE IF Len(strings) = 1 THEN strings[1]
    ELSE strings[1] \o <<44, 32>> \o join(Tail(strings))

\* format_overload_detail: (arg, ...) -> result.
format_overload_detail(overload) ==
    <<40>> \o join([i \in 1..Len(overload.args) |-> display_name(overload.args[i])])
    \o <<41, 32, 45, 62, 32>> \o display_name(overload.result)

\* get_function_docs: the entry of the table that documents the name, or <<>>.
get_function_docs(name, is_proto) ==
    IF name \in BUILTINS THEN <<"BUILTINS", name>>
    ELSE IF is_proto /\ name \in PROTOVALIDATE_BUILTINS
         THEN <<"PROTOVALIDATE_BUILTINS", name>>
    ELSE <<>>

CompletionItem(label, kind, detail, documentation, insert_text, sort_text) ==
    [label |-> label, kind |-> kind, detail |-> detail, documentation |-> documentation,
     insert_text |-> insert_text, sort_text |-> sort_text]

\* The filter of every loop: a prefix that is not empty and does not start the name.
Skipped(name, prefix) ==
    prefix # <<>> /\ ~starts_with(to_lowercase(name), to_lowercase(prefix))

\* name(${1}, ${2}, ...), or name() without arguments.
insert_text_of(name, arg_types) ==
    name \o <<40>>
    \o join([i \in 1..Len(arg_types) |-> <<36, 123, 48 + i, 125>>]) \o <<41>>

FieldItem(field) ==
    CompletionItem(field[1], "FIELD", display_name(field[2]), <<>>, <<>>,
                   <<48, 95>> \o field[1])

MethodItem(overload, is_proto) ==
    CompletionItem(overload.name, "METHOD", format_overload_detail(overload),
                   get_function_docs(overload.name, is_proto),
                   insert_text_of(overload.name, overload.args),
                   <<49, 95>> \o overload.name)

\* member_completions without the test for operator functions.
member_completions_operators(receiver_type, env, prefix, is_proto) ==
    LET fields == IF receiver_type.kind = "Message"
                  THEN SelectSeq(message_fields(env, receiver_type.name),
                                 LAMBDA f : ~Skipped(f[1], prefix))
                  ELSE <<>>
        methods == SelectSeq(methods_for_type(env, receiver_type),
                             LAMBDA m : ~Skipped(m.name, prefix))
    IN  [k \in 1..Len(fields) |-> FieldItem(fields[k])]
        \o [k \in 1..Len(methods) |-> MethodItem(methods[k], is_proto)]

\* member_completions: the fields of a message, then the methods of the type.
member_completions(receiver_type, env, prefix, is_proto) ==
    LET fields == IF receiver_type.kind = "Message"
                  THEN SelectSeq(message_fields(env, receiver_type.name),
                                 LAMBDA f : ~Skipped(f[1], prefix))
                  ELSE <<>>
        methods == SelectSeq(methods_for_type(env, receiver_type),
                             LAMBDA m : /\ ~(starts_with(m.name, <<95>>)
                                             \/ \E i \in 1..Len(m.name) : m.name[i] = 64)
                                        /\ ~Skipped(m.name, prefix))
    IN  [k \in 1..Len(fields) |-> FieldItem(fields[k])]
        \o [k \in 1..Len(methods) |-> MethodItem(methods[k], is_proto)]

\* identifier_completions: the variables, the standalone functions, the macros.
identifier_completions(env, prefix, is_proto) ==
    LET variables == SelectSeq(env.variables, LAMBDA v : ~Skipped(v[1], prefix))
        functions == SelectSeq(env.standalone_functions, LAMBDA f : ~Skipped(f, prefix))
        macros == SelectSeq(MACROS, LAMBDA m : ~Skipped(m, prefix))
    IN  [k \in 1..Len(variables) |->
            CompletionItem(variables[k][1], "VARIABLE", display_name(variables[k][2]),
                           <<>>, <<>>, <<48, 95>> \o variables[k][1])]
        \o [k \in 1..Len(functions) |->
               CompletionItem(functions[k], "FUNCTION", <<>>,
                              get_function_docs(functions[k], is_proto), <<>>,
                              <<49, 95>> \o functions[k])]
        \o [k \in 1..Len(macros) |->
               CompletionItem(macros[k], "KEYWORD", <<>>,
                              get_function_docs(macros[k], is_proto), <<>>,
                              <<50, 95>> \o macros[k])]

\* The match on the context of completion_at_position and of
\* completion_at_position_proto.
ItemsAt(source, offset, env, is_proto) ==
    LET context == detect_context(source, offset)
    IN  IF context.context = "MemberAccess"
        THEN LET receiver_type == resolve_receiver_type(source, offset,
                                                        Len(context.prefix), env)
             IN  IF receiver_type.kind # "None"
                 THEN member_completions(receiver_type, env, context.prefix, is_proto)
                 ELSE member_completions(CelType_Dyn, env, context.prefix, is_proto)
        ELSE identifier_completions(env, context.prefix, is_proto)

NoResponse == [response |-> "None"]

Response(items) ==
    IF items = <<>> THEN NoResponse ELSE [response |-> "Array", items |-> items]

\* completion_at_position.
completion_at_position(line_index, source, env, position) ==
    LET offset == position_to_offset(line_index, position)
    IN  IF offset = None THEN NoResponse
        ELSE Response(ItemsAt(source, offset, env, FALSE))

\* ProtoDocumentState::region_at_offset: the first region that holds the offset,
\* in a sequence that is empty when there is none.
RECURSIVE region_at_offset(_, _)
region_at_offset(region_states, host_offset) ==
    IF region_states = <<>> THEN <<>>
    ELSE IF contains_host_offset(Head(region_states), host_offset)
         THEN <<Head(region_states)>>
    ELSE region_at_offset(Tail(region_states), host_offset)


\* completion_at_position_proto.
completion_at_position_proto(state, position) ==
    LET host_offset == position_to_offset(state.line_index, position)
    IN  IF host_offset = None THEN NoResponse
        ELSE LET found == region_at_offset(state.regions, host_offset)
             IN  IF found = <<>> THEN NoResponse
                 ELSE LET region_state == found[1]
                          cel_offset == host_to_cel_offset(region_state, host_offset)
                      IN  IF cel_offset = None THEN NoResponse
                          ELSE Response(ItemsAt(region_state.region.source, cel_offset,
                                                region_state.env, TRUE))

-----------------------------------------------------------------------------
(* The environments and the texts completion is asked in.                   *)

Person == <<80, 101, 114, 115, 111, 110>>

\* The member overloads: the string functions of the standard library, the
\* protovalidate extension (settings.rs, protovalidate_extension), and two
\* overloads with the names of operators.
Methods ==
      \* contains
    <<Overload(<<99, 111, 110, 116, 97, 105, 110, 115>>,
               CelType_String, <<CelType_String>>, CelType_Bool),
      \* startsWith
      Overload(<<115, 116, 97, 114, 116, 115, 87, 105, 116, 104>>,
               CelType_String, <<CelType_String>>, CelType_Bool),
      \* endsWith
      Overload(<<101, 110, 100, 115, 87, 105, 116, 104>>,
               CelType_String, <<CelType_String>>, CelType_Bool),
      \* matches
      Overload(<<109, 97, 116, 99, 104, 101, 115>>,
               CelType_String, <<CelType_String>>, CelType_Bool),
      \* size
      Overload(<<115, 105, 122, 101>>,
               CelType_String, <<>>, CelType_Int),
      \* _+_
      Overload(<<95, 43, 95>>,
               CelType_String, <<CelType_String>>, CelType_String),
      \* _+_
      Overload(<<95, 43, 95>>,
               CelType_Int, <<CelType_Int>>, CelType_Int),
      \* @in
      Overload(<<64, 105, 110>>,
               CelType_Dyn, <<CelType_Dyn>>, CelType_Bool),
      \* isEmail
      Overload(<<105, 115, 69, 109, 97, 105, 108>>,
               CelType_String, <<>>, CelType_Bool),
      \* isHostname
      Overload(<<105, 115, 72, 111, 115, 116, 110, 97, 109, 101>>,
               CelType_String, <<>>, CelType_Bool),
      \* isIp
      Overload(<<105, 115, 73, 112>>,
               CelType_String, <<>>, CelType_Bool),
      \* isIp
      Overload(<<105, 115, 73, 112>>,
               CelType_String, <<CelType_Int>>, CelType_Bool),
      \* isIpPrefix
      Overload(<<105, 115, 73, 112, 80, 114, 101, 102, 105, 120>>,
               CelType_String, <<CelType_Int, CelType_Bool>>, CelType_Bool)>>

\* The environment of build_protovalidate_env_typed for a type of this, with a
\* variable more and with a registry that knows the message Person.
EnvOf(this_type) ==
    [variables |-> <<<<<<116, 104, 105, 115>>, this_type>>, <<<<114, 117, 108, 101, 115>>, CelType_Dyn>>,
                     <<<<110, 97, 109, 101>>, CelType_String>>>>,
     standalone_functions |-> <<<<115, 105, 122, 101>>, <<115, 116, 114, 105, 110, 103>>, <<77, 97, 116, 99, 104, 101, 115>>>>,
     methods |-> Methods,
     messages |-> <<<<Person, <<<<<<110, 97, 109, 101>>, CelType_String>>, <<<<105, 115, 65, 99, 116, 105, 118, 101>>, CelType_Bool>>,
                                <<<<115, 112, 111, 117, 115, 101>>, CelType_Message(Person)>>>>>>>>]

Envs == {EnvOf(CelType_String), EnvOf(CelType_Int), EnvOf(CelType_Message(Person))}

\* The expressions completion is asked in.
CompletionSources ==
    {<<>>,
     <<115, 105>>,                                                                         \* si
     <<116, 104, 105, 115, 46>>,                                                           \* this.
     <<116, 104, 105, 115, 46, 105, 115>>,                                                 \* this.is
     <<116, 104, 105, 115, 46, 73, 83>>,                                                   \* this.IS
     <<116, 104, 105, 115, 46, 95>>,                                                       \* this._
     <<116, 104, 105, 115, 46, 32, 99, 111>>,                                              \* this. co
     <<116, 104, 105, 115, 46, 105, 115, 69, 109, 97, 105, 108, 40, 41>>,                  \* this.isEmail()
     <<110, 97, 109, 101, 46, 115, 116>>,                                                  \* name.st
     <<104, 97, 115, 40, 116, 104, 105, 115, 46, 41>>,                                     \* has(this.)
     <<104, 97, 115, 40, 116, 104, 105, 115, 46, 110, 97, 109, 101, 41>>,                  \* has(this.name)
     <<116, 104, 105, 115, 46, 115, 112, 111, 117, 115, 101, 46, 110>>,                    \* this.spouse.n
     <<116, 104, 105, 115, 46, 110, 97, 109, 101, 46, 115, 105, 122, 101, 40, 41>>,        \* this.name.size()
     <<115, 105, 122, 101, 40, 110, 97, 109, 101, 44, 32, 116, 104, 105, 115, 46, 109, 97, 41>>} \* size(name, this.ma)

\* this.  is, on two lines.
TwoLines == <<116, 104, 105, 115, 46, 10, 32, 105, 115>>

Columns(source) == {<<0, col>> : col \in 0..Len(source)} \cup {<<1, 0>>, <<1, 3>>}

InitComplete ==
    /\ \E env \in Envs :
          \/ \E source \in CompletionSources \cup {TwoLines} :
             \E position \in Columns(source) :
                /\ host = source
                /\ regions = <<>>
                /\ arg = [env |-> env, position |-> position]
                /\ op = "Cel"
          \/ \E source \in CompletionSources :
             \E states \in {ProtoDocumentStateNew(AnnotationOf(source), 0).regions} :
             \E col \in (Len(LitPrefix) - 1)..(Len(LitPrefix) + Len(source) + 1) :
                /\ host = AnnotationOf(source)
                /\ regions = [i \in 1..Len(states) |->
                                 [region |-> states[i].region, mapper |-> states[i].mapper,
                                  env |-> env]]
                /\ arg = [env |-> env, position |-> <<0, col>>]
                /\ op = "Proto"
    /\ index = LineIndexNew(host)
    /\ ret = None
    /\ walk = NoWalk
    /\ StoreInit

\* The completion request on a CEL document.
CompletionAtPosition ==
    /\ op = "Cel"
    /\ ret' = completion_at_position(index, host, arg.env, arg.position)
    /\ op' = "completion_at_position"
    /\ UNCHANGED <<host, regions, arg, walk, index>>
    /\ UNCHANGED store_vars

\* The completion request on a proto document.
CompletionAtPositionProto ==
    /\ op = "Proto"
    /\ ret' = completion_at_position_proto([line_index |-> index, regions |-> regions],
                                           arg.position)
    /\ op' = "completion_at_position_proto"
    /\ UNCHANGED <<host, regions, arg, walk, index>>
    /\ UNCHANGED store_vars

NextComplete == CompletionAtPosition \/ CompletionAtPositionProto

SpecComplete == InitComplete /\ [][NextComplete]_vars

\* The request has been answered.
CompletionDone == op \in {"completion_at_position", "completion_at_position_proto"}

\* What the answered request asked: the expression, the offset in it, the
\* environment, and the kind of document.  Only defined when there is an answer
\* with items.
Asked ==
    IF op = "completion_at_position"
    THEN [source |-> host, offset |-> position_to_offset(index, arg.position),
          env |-> arg.env, is_proto |-> FALSE]
    ELSE LET host_offset == position_to_offset(index, arg.position)
             region_state == region_at_offset(regions, host_offset)[1]
         IN  [source |-> region_state.region.source,
              offset |-> host_to_cel_offset(region_state, host_offset),
              env |-> region_state.env, is_proto |-> TRUE]


-----------------------------------------------------------------------------
\* The answered request, worked out once: its context, the text S' that was
\* re-checked, the text in which the sentinel takes the place of the whole
\* identifier the cursor is in, the resolved receiver type (NoType when there is
\* none), the type the members were listed for, and the suggestions for the
\* empty prefix with the same environment, receiver type and context.
Answered ==
    LET context == detect_context(Asked.source, Asked.offset)
        resolved == resolve_receiver_type(Asked.source, Asked.offset,
                                          Len(context.prefix), Asked.env)
        receiver == IF resolved.kind = "None" THEN CelType_Dyn ELSE resolved
        before == trim_end(SubSeq(Asked.source, 1, Asked.offset - Len(context.prefix)))
    IN  [context |-> context.context,
         prefix |-> context.prefix,
         env |-> Asked.env,
         insert_offset |-> Asked.offset - Len(context.prefix),
         modified |-> modified(Asked.source, Asked.offset, Len(context.prefix)),
         replaced |-> SubSeq(Asked.source, 1, Asked.offset - Len(context.prefix))
                      \o PLACEHOLDER
                      \o SubSeq(Asked.source, IdentEnd(Asked.source, Asked.offset) + 1,
                                Len(Asked.source)),
         receiver_text |-> SubSeq(before, 1, Len(before) - 1),
         resolved |-> resolved,
         receiver |-> receiver,
         unfiltered |-> IF context.context = "MemberAccess"
                        THEN member_completions(receiver, Asked.env, <<>>, Asked.is_proto)
                        ELSE identifier_completions(Asked.env, <<>>, Asked.is_proto)]

Labels(items) == {items[k].label : k \in 1..Len(items)}

\* C19: the suggestions returned for a prefix P are among those returned for the
\* empty prefix with the same environment and the same receiver type (or
\* identifier context), the label of each starts with P when case is ignored, and
\* no method among them has a label that starts with _ or contains @.
C19_PrefixFiltering ==
    (CompletionDone /\ ret.response = "Array") =>
        \E a \in {Answered} :
        \A k \in 1..Len(ret.items) :
            /\ \E j \in 1..Len(a.unfiltered) : a.unfiltered[j] = ret.items[k]
            /\ starts_with(to_lowercase(ret.items[k].label), to_lowercase(a.prefix))
            /\ ret.items[k].kind = "METHOD" =>
                   /\ ret.items[k].label[1] # 95
                   /\ \A i \in 1..Len(ret.items[k].label) : ret.items[k].label[i] # 64

\* name.st with the cursor at the end: startsWith is suggested and contains is
\* not, in an environment with an operator overload for the string receiver.
C19_Witness ==
    /\ op = "completion_at_position"
    /\ host = <<110, 97, 109, 101, 46, 115, 116>>
    /\ arg.position = <<0, 7>>
    /\ ret.response = "Array"
    /\ \E a \in {Answered} :
          /\ a.context = "MemberAccess"
          /\ a.prefix = <<115, 116>>
          /\ <<115, 116, 97, 114, 116, 115, 87, 105, 116, 104>> \in Labels(ret.items)
          /\ <<99, 111, 110, 116, 97, 105, 110, 115>> \notin Labels(ret.items)
          /\ <<99, 111, 110, 116, 97, 105, 110, 115>> \in Labels(a.unfiltered)
          /\ \E j \in 1..Len(methods_for_type(a.env, a.receiver)) :
                methods_for_type(a.env, a.receiver)[j].name = <<95, 43, 95>>

\* C20: in a member access on a declared variable, in a text that is an
\* expression once the sentinel has taken the place of the identifier being
\* typed, the sentinel stands alone as the member field of S' (no identifier
\* byte follows it) and the resolved receiver type is the declared type of the
\* variable, not the dyn fallback, also when identifier characters follow the
\* cursor.
C20_MidExpression ==
    (CompletionDone /\ ret.response = "Array") =>
        \E a \in {Answered} :
            (/\ a.context = "MemberAccess"
             /\ Lookup(a.env.variables, a.receiver_text) # <<>>
             /\ parse(a.replaced).node # "None")
            => LET after == a.insert_offset + Len(PLACEHOLDER)
               IN  /\ after < Len(a.modified) => ~IsIdentByte(a.modified[after + 1])
                   /\ a.resolved = Lookup(a.env.variables, a.receiver_text)[2]


-----------------------------------------------------------------------------
(* The context of a region and the type of this (proto_parser.rs).  The     *)
(* texts are ASCII; \w, \s and \d are modelled by their ASCII parts.        *)

CelType_UInt == TypeOf("UInt", <<117, 105, 110, 116>>)
CelType_Double == TypeOf("Double", <<100, 111, 117, 98, 108, 101>>)
CelType_Bytes == TypeOf("Bytes", <<98, 121, 116, 101, 115>>)

\* CelType::list(elem).
CelType_list(elem) ==
    [kind |-> "List", name |-> <<108, 105, 115, 116, 40>> \o elem.name \o <<41>>, params |-> <<elem>>]

\* CelType::map(key, value).
CelType_map(key, value) ==
    [kind |-> "Map", name |-> <<109, 97, 112, 40>> \o key.name \o <<44, 32>> \o value.name \o <<41>>,
     params |-> <<key, value>>]

\* The names proto_field_type_to_cel matches, with their types.
ScalarTypes ==
    <<<<<<98, 111, 111, 108>>, CelType_Bool>>,
      <<<<105, 110, 116, 51, 50>>, CelType_Int>>, <<<<105, 110, 116, 54, 52>>, CelType_Int>>, <<<<115, 105, 110, 116, 51, 50>>, CelType_Int>>,
      <<<<115, 105, 110, 116, 54, 52>>, CelType_Int>>, <<<<115, 102, 105, 120, 101, 100, 51, 50>>, CelType_Int>>, <<<<115, 102, 105, 120, 101, 100, 54, 52>>, CelType_Int>>,
      <<<<117, 105, 110, 116, 51, 50>>, CelType_UInt>>, <<<<117, 105, 110, 116, 54, 52>>, CelType_UInt>>, <<<<102, 105, 120, 101, 100, 51, 50>>, CelType_UInt>>,
      <<<<102, 105, 120, 101, 100, 54, 52>>, CelType_UInt>>,
      <<<<102, 108, 111, 97, 116>>, CelType_Double>>, <<<<100, 111, 117, 98, 108, 101>>, CelType_Double>>,
      <<<<115, 116, 114, 105, 110, 103>>, CelType_String>>,
      <<<<98, 121, 116, 101, 115>>, CelType_Bytes>>>>

RECURSIVE proto_field_type_to_cel(_)
proto_field_type_to_cel(proto_type) ==
    IF Lookup(ScalarTypes, proto_type) # <<>> THEN Lookup(ScalarTypes, proto_type)[2]
    ELSE IF starts_with(proto_type, <<114, 101, 112, 101, 97, 116, 101, 100, 32>>)
         THEN CelType_list(proto_field_type_to_cel(
                               SubSeq(proto_type, 10, Len(proto_type))))
    ELSE IF starts_with(proto_type, <<109, 97, 112, 60>>) THEN CelType_map(CelType_Dyn, CelType_Dyn)
    ELSE IF \/ \E i \in 1..Len(proto_type) : proto_type[i] = 46
            \/ (proto_type # <<>> /\ proto_type[1] \in 65..90)
         THEN CelType_Message(proto_type)
    ELSE CelType_Dyn

\* ProtovalidateContext: an absent name is <<>>.
ProtovalidateContext(context_type, message_type, field_name, field_type) ==
    [context_type |-> context_type, message_type |-> message_type,
     field_name |-> field_name, field_type |-> field_type]

\* ProtovalidateContext::this_type.
this_type(context) ==
    CASE context.context_type = "Field" ->
            IF context.field_type # <<>> THEN proto_field_type_to_cel(context.field_type)
            ELSE IF context.message_type # <<>> THEN CelType_Message(context.message_type)
            ELSE CelType_Dyn
      [] context.context_type = "Message" ->
            IF context.message_type # <<>> THEN CelType_Message(context.message_type)
            ELSE CelType_Dyn
      [] OTHER -> CelType_Dyn

\* The offset after the longest run of \w bytes (and dots, with dots) from p on.
RECURSIVE RunEnd(_, _, _)
RunEnd(bytes, p, dots) ==
    IF p < Len(bytes) /\ (IsIdentByte(At(bytes, p)) \/ (dots /\ At(bytes, p) = 46))
    THEN RunEnd(bytes, p + 1, dots) ELSE p

\* (\w[\w.]*)\s+(\w+)\s*=\s*\d+ at offset p of the line: the two groups, or <<>>.
\* The repetitions are greedy, and a shorter run never lets the rest match.
FieldGroups(line, p) ==
    IF ~(p < Len(line) /\ IsIdentByte(At(line, p))) THEN <<>>
    ELSE LET type_end == RunEnd(line, p + 1, TRUE)
             name_start == SkipSpace(line, type_end)
         IN  IF name_start = type_end
                \/ ~(name_start < Len(line) /\ IsIdentByte(At(line, name_start)))
             THEN <<>>
             ELSE LET name_end == RunEnd(line, name_start, FALSE)
                      equals == SkipSpace(line, name_end)
                  IN  IF /\ equals < Len(line)
                         /\ At(line, equals) = 61
                         /\ SkipSpace(line, equals + 1) < Len(line)
                         /\ At(line, SkipSpace(line, equals + 1)) \in 48..57
                      THEN <<SubSeq(line, p + 1, type_end),
                             SubSeq(line, name_start + 1, name_end)>>
                      ELSE <<>>

\* FIELD_PATTERN.captures: ^\s*(?:repeated\s+)?(\w[\w.]*)\s+(\w+)\s*=\s*\d+, the
\* optional group first taken, then left out.
FIELD_PATTERN(line) ==
    LET p == SkipSpace(line, 0)
        after == SkipSpace(line, p + 8)
        taken == IF LitAt(line, p, <<114, 101, 112, 101, 97, 116, 101, 100>>) /\ after > p + 8
                 THEN FieldGroups(line, after) ELSE <<>>
    IN  IF taken # <<>> THEN taken ELSE FieldGroups(line, p)

\* str::trim, on ASCII white space.
RECURSIVE trim_start(_)
trim_start(s) == IF s # <<>> /\ IsSpace(s[1]) THEN trim_start(Tail(s)) ELSE s

trim(s) == trim_end(trim_start(s))

\* message\s+(\w+)\s*\{ at offset q: [end, name], or <<>>.
MessageAt(bytes, q) ==
    IF ~LitAt(bytes, q, <<109, 101, 115, 115, 97, 103, 101>>) THEN <<>>
    ELSE LET name_start == SkipSpace(bytes, q + 7)
         IN  IF name_start = q + 7
                \/ ~(name_start < Len(bytes) /\ IsIdentByte(At(bytes, name_start)))
             THEN <<>>
             ELSE LET name_end == RunEnd(bytes, name_start, FALSE)
                      brace == SkipSpace(bytes, name_end)
                  IN  IF brace < Len(bytes) /\ At(bytes, brace) = 123
                      THEN <<brace + 1, SubSeq(bytes, name_start + 1, name_end)>>
                      ELSE <<>>

\* MESSAGE_PATTERN.captures_iter: the names of the matches from offset p on.
RECURSIVE MESSAGE_PATTERN(_, _)
MESSAGE_PATTERN(bytes, p) ==
    LET starts == {q \in p..(Len(bytes) - 1) : MessageAt(bytes, q) # <<>>}
    IN  IF starts = {} THEN <<>>
        ELSE <<MessageAt(bytes, Min(starts))[2]>>
             \o MESSAGE_PATTERN(bytes, MessageAt(bytes, Min(starts))[1])

\* extract_message_context: the name of the last message declared before the
\* position, or <<>>.
extract_message_context(bytes, position) ==
    LET messages == MESSAGE_PATTERN(SubSeq(bytes, 1, position), 0)
    IN  IF messages = <<>> THEN <<>> ELSE messages[Len(messages)]

\* str::rfind('\n') + 1, or 0.
LineStartBefore(bytes, p) ==
    LET breaks == {i \in 0..(p - 1) : At(bytes, i) = 10}
    IN  IF breaks = {} THEN 0 ELSE Max(breaks) + 1

\* extract_field_context: <<message_type, field_name, field_type>>.
extract_field_context(bytes, annotation_start) ==
    LET line_start == LineStartBefore(bytes, annotation_start)
        line == SubSeq(bytes, line_start + 1, annotation_start)
        caps == FIELD_PATTERN(trim(line))
    IN  <<extract_message_context(bytes, annotation_start),
          IF caps = <<>> THEN <<>> ELSE caps[2],
          IF caps = <<>> THEN <<>> ELSE caps[1]>>

\* The context extract_cel_regions determines for a match of a pattern.
ContextOf(bytes, mat, context_type) ==
    CASE context_type = "Field" ->
            LET found == extract_field_context(bytes, mat[1])
            IN  ProtovalidateContext("Field", found[1], found[2], found[3])
      [] context_type = "Message" ->
            ProtovalidateContext("Message", extract_message_context(bytes, mat[1]),
                                 <<>>, <<>>)
      [] OTHER -> ProtovalidateContext("Predefined", <<>>, <<>>, <<>>)

\* The contexts of the regions of extract_cel_regions, in the order of the regions.
RECURSIVE ContextsOfMatches(_, _, _, _, _)
ContextsOfMatches(bytes, matches, k, context_type, comment_ranges) ==
    IF k > Len(matches) THEN <<>>
    ELSE (IF RegionOfMatch(bytes, matches[k], context_type, comment_ranges) = <<>>
          THEN <<>> ELSE <<ContextOf(bytes, matches[k], context_type)>>)
         \o ContextsOfMatches(bytes, matches, k + 1, context_type, comment_ranges)

RECURSIVE ContextsOfPatterns(_, _, _)
ContextsOfPatterns(bytes, i, comment_ranges) ==
    IF i > Len(PROTOVALIDATE_PATTERNS) THEN <<>>
    ELSE ContextsOfMatches(bytes,
                           FindIter(bytes, 0, PROTOVALIDATE_PATTERNS[i].lits, FALSE),
                           1, PROTOVALIDATE_PATTERNS[i].context_type, comment_ranges)
         \o ContextsOfPatterns(bytes, i + 1, comment_ranges)

\* resolve_this_type without a registry, for every region of the text.
resolve_this_type(source) ==
    LET bytes == as_bytes(source)
        contexts == ContextsOfPatterns(bytes, 1, find_comment_ranges(bytes))
    IN  [i \in 1..Len(contexts) |->
            [context |-> contexts[i], this_type |-> this_type(contexts[i])]]


-----------------------------------------------------------------------------
(* The declarations the contexts are extracted from.  A text is written     *)
(* from its parts, so the declared type of the field and the enclosing      *)
(* message of every annotation are known.                                   *)

\* The type names of the declarations that are no scalar types.
MapType == <<109, 97, 112, 60, 115, 116, 114, 105, 110, 103, 44, 32, 105, 110, 116, 51, 50, 62>>
QualifiedType == <<97, 99, 109, 101, 46, 65, 100, 100, 114, 101, 115, 115>>
CapitalisedType == <<65, 100, 100, 114, 101, 115, 115>>

DeclaredTypes ==
    {ScalarTypes[i][1] : i \in 1..Len(ScalarTypes)}
    \cup {MapType, QualifiedType, CapitalisedType}

FieldNames == {<<116, 97, 103, 115>>, <<102>>}

\* (buf.validate.<kind>).cel = {expression: "true"}
OptionOf(kind) ==
    <<40, 98, 117, 102, 46, 118, 97, 108, 105, 100, 97, 116, 101, 46>> \o kind \o <<41, 46, 99, 101, 108, 32, 61, 32, 123, 101, 120, 112, 114, 101, 115, 115, 105, 111, 110, 58,
  32, 34, 116, 114, 117, 101, 34, 125>>

\* A field with a field annotation on its line.
FieldLine(label, type, name) ==
    <<32, 32>> \o label \o type \o <<32>> \o name \o <<32, 61, 32, 49, 32, 91>> \o OptionOf(<<102, 105, 101, 108, 100>>)
    \o <<93, 59>> \o <<10>>

\* A message option.
MessageLine == <<32, 32>> \o <<111, 112, 116, 105, 111, 110, 32>> \o OptionOf(<<109, 101, 115, 115, 97, 103, 101>>) \o <<59, 10>>

\* A nested message that is closed before the lines of the enclosing one.
NestedMessage == <<32, 32, 109, 101, 115, 115, 97, 103, 101, 32, 73, 110, 110, 101, 114, 32, 123, 125>> \o <<10>>

\* message User { ... }
MessageOf(body) == <<109, 101, 115, 115, 97, 103, 101, 32, 85, 115, 101, 114, 32, 123>> \o <<10>> \o body \o <<125, 10>>

\* extend buf.validate.StringRules { bool f = 1 [(buf.validate.predefined).cel ...]; }
PredefinedText(name) ==
    <<101, 120, 116, 101, 110, 100, 32, 98, 117, 102, 46, 118, 97, 108, 105, 100, 97, 116, 101, 46,
  83, 116, 114, 105, 110, 103, 82, 117, 108, 101, 115, 32, 123>> \o <<10>> \o <<32, 32, 98, 111, 111, 108, 32>> \o name \o <<32, 61, 32, 49, 32, 91>>
    \o OptionOf(<<112, 114, 101, 100, 101, 102, 105, 110, 101, 100>>) \o <<93, 59>> \o <<10, 125, 10>>

\* The declarations: what is declared, and the text.
Declarations ==
    {[kind |-> "Field", label |-> label, type |-> type, message |-> <<85, 115, 101, 114>>,
      text |-> MessageOf(nested \o FieldLine(label, type, name))] :
        label \in {<<>>, <<114, 101, 112, 101, 97, 116, 101, 100, 32>>}, type \in DeclaredTypes, name \in FieldNames,
        nested \in {<<>>, NestedMessage}}
    \cup {[kind |-> "Message", label |-> <<>>, type |-> <<>>, message |-> <<85, 115, 101, 114>>,
           text |-> MessageOf(nested \o MessageLine)] : nested \in {<<>>, NestedMessage}}
    \cup {[kind |-> "Predefined", label |-> <<>>, type |-> <<>>, message |-> <<>>,
           text |-> PredefinedText(name)] : name \in FieldNames}

InitContext ==
    /\ \E d \in Declarations :
          /\ host = d.text
          /\ arg = [kind |-> d.kind, label |-> d.label, type |-> d.type,
                    message |-> d.message]
    /\ regions = <<>>
    /\ op = "Declared"
    /\ index = LineIndexNew(host)
    /\ ret = None
    /\ walk = NoWalk
    /\ StoreInit

\* The environment of every region of the text is built for its type of this.
ResolveThisType ==
    /\ op = "Declared"
    /\ ret' = resolve_this_type(host)
    /\ op' = "resolve_this_type"
    /\ UNCHANGED <<host, regions, arg, walk, index>>
    /\ UNCHANGED store_vars

NextContext == ResolveThisType

SpecContext == InitContext /\ [][NextContext]_vars

\* The type the declared type of a field is mapped to.
RECURSIVE MappedType(_, _)
MappedType(label, type) ==
    IF label # <<>> THEN CelType_list(MappedType(<<>>, type))
    ELSE IF type = MapType THEN CelType_map(CelType_Dyn, CelType_Dyn)
    ELSE IF type \in {QualifiedType, CapitalisedType} THEN CelType_Message(type)
    ELSE IF type = <<98, 111, 111, 108>> THEN CelType_Bool
    ELSE IF type \in {<<105, 110, 116, 51, 50>>, <<105, 110, 116, 54, 52>>, <<115, 105, 110, 116, 51, 50>>, <<115, 105, 110, 116, 54, 52>>, <<115, 102, 105, 120, 101, 100, 51, 50>>, <<115, 102, 105, 120, 101, 100, 54, 52>>}
         THEN CelType_Int
    ELSE IF type \in {<<117, 105, 110, 116, 51, 50>>, <<117, 105, 110, 116, 54, 52>>, <<102, 105, 120, 101, 100, 51, 50>>, <<102, 105, 120, 101, 100, 54, 52>>} THEN CelType_UInt
    ELSE IF type \in {<<102, 108, 111, 97, 116>>, <<100, 111, 117, 98, 108, 101>>} THEN CelType_Double
    ELSE IF type = <<115, 116, 114, 105, 110, 103>> THEN CelType_String
    ELSE CelType_Bytes

\* C21: the type of this of a field-level region is the mapped type of the
\* declared field (a list of it for a repeated field, a map of dyn for a map
\* field, a message for a qualified or capitalised name), a message-level region
\* has the enclosing message type and a predefined region has dyn.
C21_ThisType ==
    op = "resolve_this_type" =>
        /\ Len(ret) = 1
        /\ ret[1].this_type =
              CASE arg.kind = "Field" -> MappedType(arg.label, arg.type)
                [] arg.kind = "Message" -> CelType_Message(arg.message)
                [] OTHER -> CelType_Dyn


-----------------------------------------------------------------------------
(* The lines of a text as the specification defines them: line i holds the  *)
(* chars that i line feeds precede.                                         *)

LineOfChar(s, k) == Cardinality({j \in 1..(k - 1) : s[j] = 10})

LineChars(s, i) == {k \in 1..Len(s) : LineOfChar(s, k) = i}

LineCount(s) == Cardinality({j \in 1..Len(s) : s[j] = 10}) + 1

\* L[i]: the offset at which line i starts.
LineBegin(s, i) ==
    IF LineChars(s, i) = {} THEN StrLen(s) ELSE CharStart(s, Min(LineChars(s, i)))

\* The offset of the line feed that ends line i, or the end of the text.
LineLimit(s, i) ==
    LET feeds == {k \in LineChars(s, i) : s[k] = 10}
    IN  IF feeds = {} THEN StrLen(s) ELSE CharStart(s, Min(feeds))

RECURSIVE Utf16Sum(_, _)
Utf16Sum(s, chars) ==
    IF chars = {} THEN 0
    ELSE len_utf16(s[Min(chars)]) + Utf16Sum(s, chars \ {Min(chars)})

\* The UTF-16 length of line i without its line feed.
LineUnits(s, i) == Utf16Sum(s, {k \in LineChars(s, i) : s[k] # 10})

\* C22: position_to_offset is absent exactly when the line is beyond the last
\* line start; otherwise the offset lies within the requested line, and for a
\* column past the last character of the line it is the offset of the trailing
\* line feed (the end of the text on the last line), never one of a later line.
C22_PositionToOffset ==
    op = "position_to_offset" =>
        /\ ret = None <=> arg[1] >= LineCount(host)
        /\ ret # None =>
              /\ LineBegin(host, arg[1]) <= ret
              /\ ret <= LineLimit(host, arg[1])
              /\ arg[2] >= LineUnits(host, arg[1]) => ret = LineLimit(host, arg[1])

\* A column past the end of the first of two lines, after a two-byte char.
C22_Witness ==
    /\ op = "position_to_offset"
    /\ host = <<233, 10, 97>>
    /\ arg = <<0, 5>>
    /\ ret = 2

\* C23: offset_to_position(o) is the greatest line i with L[i] <= o and the sum
\* of the UTF-16 lengths of the chars of line i that start in [L[i], o); for the
\* text a, U+1F600, b offset 5 is (0, 3) and position (0, 3) is offset 5.
C23_OffsetToPosition ==
    /\ op = "offset_to_position" =>
          LET line == Max({i \in 0..(LineCount(host) - 1) : LineBegin(host, i) <= arg})
          IN  /\ ret[1] = line
              /\ ret[2] = Utf16Sum(host, {k \in LineChars(host, line) :
                                             CharStart(host, k) < arg})
              /\ (host = AstralText /\ arg = 5) => ret = <<0, 3>>
    /\ (op = "position_to_offset" /\ host = AstralText /\ arg = <<0, 3>>) => ret = 5

\* Offset 5 of the text a, U+1F600, b.
C23_Witness ==
    /\ op = "offset_to_position"
    /\ host = AstralText
    /\ arg = 5
    /\ ret = <<0, 3>>


-----------------------------------------------------------------------------
(* The diagnostics of a host document whose regions hold any errors of the  *)
(* parser and of the checker (lsp/diagnostics.rs).                          *)

CheckErrorKinds ==
    {"UndeclaredReference", "NoMatchingOverload", "TypeMismatch", "UndefinedField",
     "NotAssignable", "HeterogeneousAggregate", "NotAType", "Other"}

ErrorSpans == {<<0, 1>>, <<1, 2>>}

ParseErrorOf(span) == [span |-> span, message |-> "syntax error"]

CheckErrorOf(kind, span) == [span |-> span, kind |-> kind, message |-> kind]

ParseErrorLists ==
    {<<>>, <<ParseErrorOf(<<1, 2>>)>>, <<ParseErrorOf(<<0, 1>>), ParseErrorOf(<<1, 2>>)>>}

CheckErrorLists ==
    {<<>>}
    \cup {<<CheckErrorOf(kind, span)>> : kind \in CheckErrorKinds, span \in ErrorSpans}
    \cup {<<CheckErrorOf(kind, <<0, 1>>), CheckErrorOf("NotAssignable", <<1, 2>>)>> :
             kind \in CheckErrorKinds}

\* The errors of the regions of a text with two regions.
FewErrors ==
    {[parse_errors |-> <<>>, check_errors |-> <<>>],
     [parse_errors |-> <<ParseErrorOf(<<1, 2>>)>>, check_errors |-> <<>>],
     [parse_errors |-> <<>>, check_errors |-> <<CheckErrorOf("TypeMismatch", <<0, 1>>)>>],
     [parse_errors |-> <<ParseErrorOf(<<0, 1>>)>>,
      check_errors |-> <<CheckErrorOf("NotAssignable", <<1, 2>>),
                         CheckErrorOf("UndefinedField", <<0, 1>>)>>]}

\* ab, and a"b written with an escape.
PlainAnnotation == AnnotationOf(<<97, 98>>)
EscapeAnnotation == AnnotationOf(<<97, 34, 98>>)

\* The region with the errors of an analysis.
WithErrors(r, parse_errors, check_errors) ==
    [region |-> r.region, mapper |-> r.mapper, context |-> r.context,
     parse_errors |-> parse_errors, check_errors |-> check_errors]

InitDiagnostics ==
    /\ \/ \E h \in {PlainAnnotation, EscapeAnnotation} :
          \E states \in {ProtoDocumentStateNew(h, 0).regions} :
          \E parse_errors \in ParseErrorLists : \E check_errors \in CheckErrorLists :
             /\ host = h
             /\ regions = <<WithErrors(states[1], parse_errors, check_errors)>>
       \/ \E h \in {EscapeAnnotation \o <<10>> \o PlainAnnotation} :
          \E states \in {ProtoDocumentStateNew(h, 0).regions} :
          \E first \in FewErrors : \E second \in FewErrors :
             /\ host = h
             /\ regions = <<WithErrors(states[1], first.parse_errors, first.check_errors),
                            WithErrors(states[2], second.parse_errors,
                                       second.check_errors)>>
    /\ op = "Proto"
    /\ arg = <<>>
    /\ index = LineIndexNew(host)
    /\ ret = None
    /\ walk = NoWalk
    /\ StoreInit

\* The diagnostics of the host document are computed.
ProtoToDiagnostics ==
    /\ op = "Proto"
    /\ ret' = proto_to_diagnostics([line_index |-> index, regions |-> regions])
    /\ op' = "proto_to_diagnostics"
    /\ UNCHANGED <<host, regions, arg, walk, index>>
    /\ UNCHANGED store_vars

NextDiagnostics == ProtoToDiagnostics

SpecDiagnostics == InitDiagnostics /\ [][NextDiagnostics]_vars

\* The code the specification gives a check error of the kind.
SpecifiedCode(kind) ==
    CASE kind = "UndeclaredReference" -> "undeclared-reference"
      [] kind = "NoMatchingOverload" -> "no-matching-overload"
      [] kind \in {"TypeMismatch", "NotAssignable"} -> "type-mismatch"
      [] kind = "UndefinedField" -> "undefined-field"
      [] kind = "HeterogeneousAggregate" -> "heterogeneous-aggregate"
      [] kind = "NotAType" -> "not-a-type"
      [] kind = "Other" -> "check-error"

\* The errors of the regions from region k on, in order: for each region the
\* parse errors, then the check errors.
RECURSIVE ErrorsFrom(_, _)
ErrorsFrom(region_states, k) ==
    IF k > Len(region_states) THEN <<>>
    ELSE [i \in 1..Len(region_states[k].parse_errors) |->
             [region |-> k, span |-> region_states[k].parse_errors[i].span, code |-> "",
              message |-> region_states[k].parse_errors[i].message]]
         \o [i \in 1..Len(region_states[k].check_errors) |->
                [region |-> k, span |-> region_states[k].check_errors[i].span,
                 code |-> SpecifiedCode(region_states[k].check_errors[i].kind),
                 message |-> region_states[k].check_errors[i].message]]
         \o ErrorsFrom(region_states, k + 1)

\* C24: proto_to_diagnostics returns one diagnostic for every parse error and
\* every check error of every region and no other, each with severity error,
\* source cel, the range of the span mapped to the host, no code for a parse
\* error and the code of its kind for a check error.
C24_DiagnosticsImage ==
    op = "proto_to_diagnostics" =>
        \E errors \in {ErrorsFrom(regions, 1)} :
            /\ Len(ret) = Len(errors)
            /\ \A k \in 1..Len(errors) :
                  ret[k] = [range |-> span_to_range(index,
                                         span_to_host(regions[errors[k].region].mapper,
                                                      errors[k].span)),
                            severity |-> "ERROR", code |-> errors[k].code,
                            source |-> "cel", message |-> errors[k].message]

\* Two regions, the first with an escape: a parse error and two check errors in
\* the first, among them one that is not assignable, and a type mismatch in the
\* second.
C24_Witness ==
    /\ op = "proto_to_diagnostics"
    /\ Len(regions) = 2
    /\ Len(regions[1].parse_errors) = 1
    /\ Len(regions[1].check_errors) = 2
    /\ regions[1].mapper.escape_adjustments # <<>>
    /\ Len(regions[2].check_errors) = 1
    /\ Len(ret) = 4
    /\ ret[1].code = ""
    /\ ret[2].code = "type-mismatch"
    /\ ret[4].code = "type-mismatch"
    /\ ret[4].range[1][1] = 1


-----------------------------------------------------------------------------
(* Hover (lsp/hover.rs).                                                    *)

\* Span::contains: the span is half open.
span_contains(span, offset) == span[1] <= offset /\ offset < span[2]

\* The variants of Expr without a sub-expression.
ChildlessNodes ==
    {"Null", "Bool", "Int", "UInt", "Float", "String", "Bytes", "Ident", "RootIdent",
     "Error"}

RECURSIVE find_node_containing_offset(_, _)
RECURSIVE FindChild(_, _, _)

\* The arm of a variant with sub-expressions: the first of them, in the order
\* the arm names them, with a node that holds the offset.
FindChild(kids, k, offset) ==
    IF k > Len(kids) THEN <<>>
    ELSE LET found == find_node_containing_offset(kids[k], offset)
         IN  IF found # <<>> THEN found ELSE FindChild(kids, k + 1, offset)

\* find_node_containing_offset without the descent into the sub-expressions.
find_node_containing_offset_shallow(ast, offset) ==
    IF span_contains(ast.span, offset) THEN <<ast>> ELSE <<>>

\* find_node_containing_offset: the innermost node that holds the offset, in a
\* sequence that is empty when there is none.
find_node_containing_offset(ast, offset) ==
    IF ~span_contains(ast.span, offset) THEN <<>>
    ELSE LET child == IF ast.node \in ChildlessNodes THEN <<>>
                      ELSE FindChild(ast.kids, 1, offset)
         IN  IF child # <<>> THEN child ELSE <<ast>>

\* find_node_at_position.
find_node_at_position(line_index, ast, position) ==
    LET target_offset == position_to_offset(line_index, position)
    IN  IF target_offset = None THEN <<>>
        ELSE find_node_containing_offset(ast, target_offset)

\* format_check_error: the headline of the kind, then what the error names.
format_check_error(error) ==
    [format |-> CASE error.kind = "UndeclaredReference" -> "**Error:** Undeclared reference"
                  [] error.kind = "NoMatchingOverload" -> "**Error:** No matching overload for"
                  [] error.kind = "TypeMismatch" -> "**Error:** Type mismatch"
                  [] error.kind = "UndefinedField" -> "**Error:** Undefined field"
                  [] error.kind = "NotAssignable" -> "**Error:** Type not assignable"
                  [] error.kind = "HeterogeneousAggregate" -> "**Error:** Heterogeneous aggregate"
                  [] error.kind = "NotAType" -> "**Error:** Not a type"
                  [] OTHER -> "**Error:**",
     of |-> error.message]

\* format_builtin_docs, of an entry get_function_docs found.
format_builtin_docs(builtin) == [format |-> "**name**signature", of |-> builtin]

\* find_check_error_at: the first error whose span overlaps the span of the node.
RECURSIVE find_check_error_at(_, _)
find_check_error_at(node, errors) ==
    IF errors = <<>> THEN <<>>
    ELSE IF Head(errors).span[1] < node.span[2] /\ Head(errors).span[2] > node.span[1]
         THEN <<Head(errors)>>
    ELSE find_check_error_at(node, Tail(errors))

\* The errors of a check result that may be absent.
ErrorsOf(check_result) == IF check_result = <<>> THEN <<>> ELSE check_result[1].errors

\* type_map.get(node.id), of a type map that is a set of typed nodes.
TypeMapGet(types, node) ==
    IF \E e \in types : e.node = node
    THEN <<(CHOOSE e \in types : e.node = node).type>>
    ELSE <<>>

\* The name of an identifier node.
VarName(node) == IF node.node \in {"Ident", "RootIdent"} THEN <<node.name>> ELSE <<>>

\* The match on the node that picks the name whose documentation is shown.
Description(node, is_proto) ==
    CASE node.node = "Ident" -> get_function_docs(node.name, is_proto)
      [] node.node = "Member" -> get_function_docs(node.name, is_proto)
      [] node.node = "Call" ->
            (CASE node.kids[1].node = "Ident" ->
                      get_function_docs(node.kids[1].name, is_proto)
               [] node.kids[1].node = "Member" ->
                      get_function_docs(node.kids[1].name, is_proto)
               [] OTHER -> <<>>)
      [] node.node = "MemberTestOnly" -> get_function_docs(<<104, 97, 115>>, is_proto)
      [] OTHER -> <<>>

Hover(contents, range) == <<[contents |-> contents, range |-> range]>>

VariableText(name, cel_type) ==
    [format |-> "(variable) name: type", of |-> <<name, display_name(cel_type)>>]

\* hover_for_node with the type of a variable shown before an error.
hover_for_node_type_first(line_index, node, check_result) ==
    LET found == find_check_error_at(node, ErrorsOf(check_result))
        typed == IF check_result = <<>> \/ VarName(node) = <<>> THEN <<>>
                 ELSE TypeMapGet(check_result[1].type_map, node)
        description == Description(node, FALSE)
    IN  IF typed # <<>>
        THEN Hover(VariableText(node.name, typed[1]), span_to_range(line_index, node.span))
        ELSE IF found # <<>>
        THEN Hover(format_check_error(found[1]), span_to_range(line_index, found[1].span))
        ELSE IF description = <<>> THEN <<>>
        ELSE Hover(format_builtin_docs(description), span_to_range(line_index, node.span))

\* hover_for_node.
hover_for_node(line_index, node, check_result) ==
    LET found == find_check_error_at(node, ErrorsOf(check_result))
        typed == IF check_result = <<>> \/ VarName(node) = <<>> THEN <<>>
                 ELSE TypeMapGet(check_result[1].type_map, node)
        description == Description(node, FALSE)
    IN  IF found # <<>>
        THEN Hover(format_check_error(found[1]), span_to_range(line_index, found[1].span))
        ELSE IF typed # <<>>
        THEN Hover(VariableText(node.name, typed[1]), span_to_range(line_index, node.span))
        ELSE IF description = <<>> THEN <<>>
        ELSE Hover(format_builtin_docs(description), span_to_range(line_index, node.span))

\* hover_at_position.
hover_at_position(line_index, ast, check_result, position) ==
    LET node == find_node_at_position(line_index, ast, position)
    IN  IF node = <<>> THEN <<>> ELSE hover_for_node(line_index, node[1], check_result)

\* hover_at_position_proto from the node on: the spans go to the host document.
HoverForRegionNode(state, region_state, node) ==
    LET check_result == region_state.check_result
        found == find_check_error_at(node, ErrorsOf(check_result))
        typed == IF check_result = <<>> \/ VarName(node) = <<>> THEN <<>>
                 ELSE TypeMapGet(check_result[1].type_map, node)
        description == Description(node, TRUE)
    IN  IF found # <<>>
        THEN Hover(format_check_error(found[1]),
                   span_to_range(state.line_index,
                                 span_to_host(region_state.mapper, found[1].span)))
        ELSE IF typed # <<>>
        THEN Hover(VariableText(node.name, typed[1]),
                   span_to_range(state.line_index,
                                 span_to_host(region_state.mapper, node.span)))
        ELSE IF description = <<>> THEN <<>>
        ELSE Hover(format_builtin_docs(description),
                   span_to_range(state.line_index,
                                 span_to_host(region_state.mapper, node.span)))

\* hover_at_position_proto.
hover_at_position_proto(state, position) ==
    LET host_offset == position_to_offset(state.line_index, position)
    IN  IF host_offset = None THEN <<>>
        ELSE LET found == region_at_offset(state.regions, host_offset)
             IN  IF found = <<>> THEN <<>>
                 ELSE LET region_state == found[1]
                          cel_offset == host_to_cel_offset(region_state, host_offset)
                      IN  IF cel_offset = None \/ region_state.ast.node = "None" THEN <<>>
                          ELSE LET node == find_node_containing_offset(region_state.ast,
                                                                       cel_offset)
                               IN  IF node = <<>> THEN <<>>
                                   ELSE HoverForRegionNode(state, region_state, node[1])

\* The expressions hovered over: x, size, size(x), x.contains(x), x.isEmail(),
\* x.f, x.size, has(x.f), x + 1 on two lines, [1, x], x[1]() and 1.
IsEmail == <<105, 115, 69, 109, 97, 105, 108>>

HoverSources ==
    {IdentX, IdentSize, Int1, CallOf(IdentSize, <<IdentX>>),
     CallOf(MemberOf(IdentX, Contains), <<IdentX>>), CallOf(MemberOf(IdentX, IsEmail), <<>>),
     MemberOf(IdentX, FieldF), MemberOf(IdentX, IdentSize.text),
     MemberTestOnlyOf(IdentX, FieldF), BinaryOf(IdentX, <<10>>, "Add", Int1),
     ListOf(<<Int1, IdentX>>), CallOf(IndexOf(IdentX, Int1), <<>>)}

\* The nodes of an expression.
RECURSIVE Subnodes(_)
Subnodes(ast) == {ast} \cup UNION {Subnodes(ast.kids[k]) : k \in 1..Len(ast.kids)}

\* The nodes without a sub-expression that have a text.
Leaves(ast) == {n \in Subnodes(ast) : n.kids = <<>> /\ n.span[2] > n.span[1]}

\* The errors the checker may report on an expression: none, one on a node, or
\* two on two of its leaves.
HoverErrorLists(ast) ==
    {<<>>}
    \cup {<<CheckErrorOf("UndeclaredReference", n.span)>> :
             n \in {m \in Subnodes(ast) : m.span[2] > m.span[1]}}
    \cup {<<CheckErrorOf("Other", pair[1].span), CheckErrorOf("TypeMismatch", pair[2].span)>> :
             pair \in {q \in Leaves(ast) \X Leaves(ast) : q[1] # q[2]}}

\* The type maps of the checker: nothing typed, or every identifier an int.
TypeMaps(ast) ==
    {{}, {[node |-> n, type |-> CelType_Int] : n \in {m \in Subnodes(ast) : m.node = "Ident"}}}

\* The check results of an expression; none when the document has no environment.
CheckResults(ast) ==
    {<<>>} \cup {<<[errors |-> errors, type_map |-> types]>> :
                    errors \in HoverErrorLists(ast), types \in TypeMaps(ast)}

HoverPositions(source) ==
    {<<0, col>> : col \in 0..(Len(source) + 1)} \cup {<<1, 0>>, <<1, 2>>, <<2, 0>>}

InitHover ==
    /\ \E p \in HoverSources : \E check_result \in CheckResults(p.ast) :
          \/ \E position \in HoverPositions(p.text) :
                /\ host = p.text
                /\ regions = <<>>
                /\ arg = [ast |-> p.ast, check_result |-> check_result,
                          position |-> position]
                /\ op = "Cel"
          \/ \E states \in {ProtoDocumentStateNew(AnnotationOf(p.text), 0).regions} :
             \E col \in (Len(LitPrefix) - 1)..(Len(AnnotationOf(p.text)) - 1) :
             \E position \in {<<0, col>>, <<1, 0>>} :
                /\ host = AnnotationOf(p.text)
                /\ regions = [i \in 1..Len(states) |->
                                 [region |-> states[i].region, mapper |-> states[i].mapper,
                                  ast |-> p.ast, check_result |-> check_result]]
                /\ arg = [ast |-> p.ast, check_result |-> check_result,
                          position |-> position]
                /\ op = "Proto"
    /\ index = LineIndexNew(host)
    /\ ret = None
    /\ walk = NoWalk
    /\ StoreInit

\* The hover request on a CEL document.
HoverAtPosition ==
    /\ op = "Cel"
    /\ ret' = hover_at_position(index, arg.ast, arg.check_result, arg.position)
    /\ op' = "hover_at_position"
    /\ UNCHANGED <<host, regions, arg, walk, index>>
    /\ UNCHANGED store_vars

\* The hover request on a proto document.
HoverAtPositionProto ==
    /\ op = "Proto"
    /\ ret' = hover_at_position_proto([line_index |-> index, regions |-> regions],
                                      arg.position)
    /\ op' = "hover_at_position_proto"
    /\ UNCHANGED <<host, regions, arg, walk, index>>
    /\ UNCHANGED store_vars

NextHover == HoverAtPosition \/ HoverAtPositionProto

SpecHover == InitHover /\ [][NextHover]_vars

\* The half-open spans have an offset in common.
Intersects(a, b) == \E i \in a[1]..(a[2] - 1) : b[1] <= i /\ i < b[2]

\* The offset the answered request asked about, in the expression: none when
\* the position is beyond the text or, in a proto document, in no region.
HoveredOffset ==
    IF op = "hover_at_position"
    THEN LET offset == position_to_offset(index, arg.position)
         IN  IF offset = None THEN <<>> ELSE <<offset>>
    ELSE LET host_offset == position_to_offset(index, arg.position)
         IN  IF host_offset = None \/ Len(regions) = 0 THEN <<>>
             ELSE IF ~contains_host_offset(regions[1], host_offset) THEN <<>>
             ELSE <<host_to_cel_offset(regions[1], host_offset)>>

\* The range of a span of the expression in the document of the request.
HoveredRange(span) ==
    IF op = "hover_at_position" THEN span_to_range(index, span)
    ELSE span_to_range(index, span_to_host(regions[1].mapper, span))

\* The name whose documentation a node shows.
NameOf(node) ==
    IF node.node \in {"Ident", "Member"} THEN <<node.name>>
    ELSE IF node.node = "Call" /\ node.kids[1].node \in {"Ident", "Member"}
    THEN <<node.kids[1].name>>
    ELSE IF node.node = "MemberTestOnly" THEN <<<<104, 97, 115>>>>
    ELSE <<>>

\* C26: the hover of the deepest node whose half-open span holds the offset is
\* the formatted check error, with the range of the span of the error, when a
\* check error intersects the node; else the type of the variable when the node
\* is an identifier with an entry in the type map; else the documentation of the
\* name of the node, the Protovalidate table consulted in proto documents only;
\* else there is no hover.
C26_HoverOrder ==
    op \in {"hover_at_position", "hover_at_position_proto"} =>
        \E offset \in {HoveredOffset} :
        \E holding \in {IF offset = <<>> THEN {}
                        ELSE {n \in Subnodes(arg.ast) : span_contains(n.span, offset[1])}} :
            IF holding = {} THEN ret = <<>>
            ELSE \E node \in {n \in holding :
                                 \A m \in holding : n.span[2] - n.span[1]
                                                    <= m.span[2] - m.span[1]} :
                 \E errors \in {ErrorsOf(arg.check_result)} :
                 \E hits \in {{k \in 1..Len(errors) : Intersects(errors[k].span, node.span)}} :
                 \E name \in {NameOf(node)} :
                    /\ \A n \in holding : n.span = node.span => n = node
                    /\ IF hits # {}
                       THEN ret = Hover(format_check_error(errors[Min(hits)]),
                                        HoveredRange(errors[Min(hits)].span))
                       ELSE IF /\ arg.check_result # <<>>
                               /\ node.node = "Ident"
                               /\ \E e \in arg.check_result[1].type_map : e.node = node
                       THEN ret = Hover(VariableText(node.name, CelType_Int),
                                        HoveredRange(node.span))
                       ELSE IF /\ name # <<>>
                               /\ \/ name[1] \in BUILTINS
                                  \/ /\ op = "hover_at_position_proto"
                                     /\ name[1] \in PROTOVALIDATE_BUILTINS
                       THEN ret = Hover(format_builtin_docs(
                                            <<IF name[1] \in BUILTINS THEN "BUILTINS"
                                              ELSE "PROTOVALIDATE_BUILTINS", name[1]>>),
                                        HoveredRange(node.span))
                       ELSE ret = <<>>

\* x.contains(x) with an error on the second x and every identifier typed, the
\* cursor on the second x: the error is shown, not the type.
C26_Witness ==
    /\ op = "hover_at_position"
    /\ host = <<120, 46, 99, 111, 110, 116, 97, 105, 110, 115, 40, 120, 41>>
    /\ arg.position = <<0, 11>>
    /\ arg.check_result # <<>>
    /\ ret # <<>>
    /\ ret[1].contents.format = "**Error:** Undeclared reference"
    /\ ret[1].range = <<<<0, 11>>, <<0, 12>>>>
    /\ arg.check_result[1].type_map # {}


-----------------------------------------------------------------------------
(* The feature requests of the server on the store: Backend::hover,         *)
(* Backend::completion and Backend::semantic_tokens_full (lib.rs).          *)

CelUri == CHOOSE u \in Uris : ~is_proto_file(u)
ProtoUri == CHOOSE u \in Uris : is_proto_file(u)

\* The environment of the documents of the model: their texts declare no
\* message, so this is dyn.
RequestEnv == EnvOf(CelType_Dyn)

\* The expression of a source of the documents of the model.
AstOf(source) ==
    IF ParseOf(source).node # "None" THEN ParseOf(source) ELSE parse(source)

\* What the requests read of a region beyond the stored fields: its expression,
\* the result of the checker and its environment.
RegionForRequest(r) ==
    [region |-> r.region, mapper |-> r.mapper, ast |-> AstOf(r.region.source),
     check_result |-> <<[errors |-> r.check_errors, type_map |-> {}]>>,
     env |-> RequestEnv]

ProtoStateForRequest(state) ==
    [line_index |-> state.line_index,
     regions |-> [i \in 1..Len(state.regions) |-> RegionForRequest(state.regions[i])]]

\* The store after the editor has opened the documents given, each an empty
\* sequence or a text, with what was sent and published on the way.
OpenedStore(cel, proto) ==
    LET empty == [documents |-> [u \in Uris |-> None], heap |-> <<>>]
        first == IF cel = <<>> THEN empty
                 ELSE open(empty.documents, empty.heap, CelUri, cel[1], 1)
        second == IF proto = <<>> THEN first
                  ELSE open(first.documents, first.heap, ProtoUri, proto[1], Len(cel) + 1)
    IN  [documents |-> second.documents,
         heap |-> second.heap,
         published |-> (IF cel = <<>> THEN <<>>
                        ELSE <<publish_diagnostics_for(CelUri, first.heap[first.state])>>)
                       \o (IF proto = <<>> THEN <<>>
                           ELSE <<publish_diagnostics_for(ProtoUri,
                                                          second.heap[second.state])>>),
         sent |-> (IF cel = <<>> THEN <<>>
                   ELSE <<[method |-> "did_open", uri |-> CelUri,
                           content_changes |-> cel, version |-> 1]>>)
                  \o (IF proto = <<>> THEN <<>>
                      ELSE <<[method |-> "did_open", uri |-> ProtoUri,
                              content_changes |-> proto, version |-> Len(cel) + 1]>>)]

InitRequests ==
    /\ \E cel \in {<<>>} \cup {<<t>> : t \in TextsOf(CelUri)} :
       \E proto \in {<<>>} \cup {<<t>> : t \in TextsOf(ProtoUri)} :
       \E store \in {OpenedStore(cel, proto)} :
          /\ documents = store.documents
          /\ heap = store.heap
          /\ published = store.published
          /\ sent = store.sent
    /\ reader = [status |-> "idle"]
    /\ host = <<>>
    /\ regions = <<>>
    /\ op = "new"
    /\ arg = <<>>
    /\ ret = None
    /\ walk = NoWalk
    /\ index = LineIndexNew(<<>>)

\* The positions of the requests: the start of the line, around the literal of
\* the annotations, and lines the documents do not have.
RequestPositions ==
    {<<0, col>> : col \in {0, 1, 2, 37, 38, 39, 40}} \cup {<<1, 0>>, <<2, 1>>}

\* Backend::hover.
HoverRequest ==
    /\ \E uri \in Uris : \E position \in RequestPositions :
          /\ arg' = [method |-> "hover", uri |-> uri, position |-> position]
          /\ LET doc == get(documents, uri)
             IN  ret' = IF doc = None THEN <<>>
                        ELSE IF heap[doc].kind = "Cel"
                        THEN IF AstOf(heap[doc].source).node = "None" THEN <<>>
                             ELSE hover_at_position(
                                      heap[doc].line_index, AstOf(heap[doc].source),
                                      <<[errors |-> heap[doc].check_errors, type_map |-> {}]>>,
                                      position)
                        ELSE hover_at_position_proto(ProtoStateForRequest(heap[doc]),
                                                     position)
    /\ op' = "hover"
    /\ UNCHANGED <<host, regions, walk, index>>
    /\ UNCHANGED store_vars

\* Backend::completion.
CompletionRequest ==
    /\ \E uri \in Uris : \E position \in RequestPositions :
          /\ arg' = [method |-> "completion", uri |-> uri, position |-> position]
          /\ LET doc == get(documents, uri)
             IN  ret' = IF doc = None THEN NoResponse
                        ELSE IF heap[doc].kind = "Cel"
                        THEN completion_at_position(heap[doc].line_index, heap[doc].source,
                                                    RequestEnv, position)
                        ELSE completion_at_position_proto(ProtoStateForRequest(heap[doc]),
                                                          position)
    /\ op' = "completion"
    /\ UNCHANGED <<host, regions, walk, index>>
    /\ UNCHANGED store_vars

\* Backend::semantic_tokens_full.
SemanticTokensFull ==
    /\ \E uri \in Uris :
          /\ arg' = [method |-> "semantic_tokens_full", uri |-> uri, position |-> <<0, 0>>]
          /\ LET doc == get(documents, uri)
             IN  ret' = IF doc = None THEN <<>>
                        ELSE IF heap[doc].kind = "Cel"
                        THEN IF AstOf(heap[doc].source).node = "None" THEN <<>>
                             ELSE <<tokens_for_ast(heap[doc].line_index,
                                                   AstOf(heap[doc].source)).data>>
                        ELSE <<tokens_for_proto(
                                   heap[doc].line_index,
                                   ProtoStateForRequest(heap[doc]).regions).data>>
    /\ op' = "semantic_tokens_full"
    /\ UNCHANGED <<host, regions, walk, index>>
    /\ UNCHANGED store_vars

NextRequests == HoverRequest \/ CompletionRequest \/ SemanticTokensFull

SpecRequests == InitRequests /\ [][NextRequests]_vars

\* The answer that says there is nothing.
Absent(method) == IF method = "completion" THEN NoResponse ELSE <<>>

\* The state a request is answered from is one of a host document, and the
\* position is in its text but in no region.
OutsideRegions(state, position) ==
    /\ state.kind = "Proto"
    /\ position[1] < LineCount(state.line_index.source)
    /\ \A i \in 1..Len(state.regions) :
          ~contains_host_offset(state.regions[i],
                                position_to_offset(state.line_index, position))

\* C25: a hover, completion or semantic-token request for a URI that is not in
\* the store, a hover or completion request for a position beyond the last line
\* or, in a host document, for an offset that no region contains, is answered
\* with nothing; and no request changes the store or publishes anything.
C25_AbsentAndUnchanged ==
    [][/\ documents' = documents
       /\ heap' = heap
       /\ published' = published
       /\ documents[arg'.uri] = None => ret' = Absent(arg'.method)
       /\ (/\ documents[arg'.uri] # None
           /\ arg'.method \in {"hover", "completion"}
           /\ \/ arg'.position[1] >= LineCount(heap[documents[arg'.uri]].line_index.source)
              \/ OutsideRegions(heap[documents[arg'.uri]], arg'.position))
          => ret' = Absent(arg'.method)]_vars

\* A hover on the first byte of the open annotation of b.proto, where no region
\* is, has been answered with nothing, a.cel is not open, and the document is
\* still in the store.
C25_Witness ==
    /\ op = "hover"
    /\ arg.uri = ProtoUri
    /\ arg.position = <<0, 1>>
    /\ documents[ProtoUri] # None
    /\ documents[CelUri] = None
    /\ Len(heap[documents[ProtoUri]].regions) = 1
    /\ ret = <<>>


-----------------------------------------------------------------------------
(* The tokens of the fields of a struct literal.                            *)

\* The offset of the colon of field k of a struct the model has built: the
\* colon and a space stand between the name and the value.
OwnColon(expr, k) == expr.kids[k + 1].span[1] - 2

\* C27: the walk of a struct literal with n fields emits, for each field, a
\* variable token over the name of that field, which ends at the colon of that
\* field, and a punctuation token at that colon.
C27_StructFieldTokens ==
    (op = "tokens_for_ast" /\ arg.node = "Struct") =>
        \E tokens \in {ret.walked[1].tokens} :
            \A k \in 1..Len(arg.names) :
                /\ \E i \in 1..Len(tokens) :
                      tokens[i] = [start |-> OwnColon(arg, k) - StrLen(arg.names[k]),
                                   length |-> StrLen(arg.names[k]),
                                   token_type |-> token_types_VARIABLE,
                                   token_modifiers |-> 0]
                /\ \E j \in 1..Len(tokens) :
                      tokens[j] = [start |-> OwnColon(arg, k), length |-> 1,
                                   token_type |-> token_types_PUNCTUATION,
                                   token_modifiers |-> 0]


-----------------------------------------------------------------------------
(* The context of a completion (completion.rs, detect_context).             *)

\* Longest source, in chars.
MaxSource == 4

\* a, 1, _, the dot, the space and the opening parenthesis.
SourceAlphabet == {97, 49, 95, 46, 32, 40}

DetectSources == UNION {[1..n -> SourceAlphabet] : n \in 0..MaxSource}

InitDetect ==
    /\ host \in DetectSources
    /\ arg \in 0..Len(host)
    /\ regions = <<>>
    /\ op = "source"
    /\ ret = None
    /\ walk = NoWalk
    /\ index = LineIndexNew(<<>>)
    /\ StoreInit

DetectContext ==
    /\ op = "source"
    /\ ret' = detect_context(host, arg)
    /\ op' = "detect_context"
    /\ UNCHANGED <<host, regions, arg, walk, index>>
    /\ UNCHANGED store_vars

NextDetect == DetectContext

SpecDetect == InitDetect /\ [][NextDetect]_vars

\* An ASCII letter, a digit or the underscore.
IsWordChar(c) == c \in (65..90) \cup (97..122) \cup (48..57) \cup {95}

\* C28: the prefix is the longest run of ASCII letters, digits and underscores
\* that ends at the cursor; the context is a member access exactly when the last
\* char before the prefix that is not white space is a dot, and an identifier
\* otherwise, also for an empty source and for a cursor at offset 0.
C28_DetectContext ==
    op = "detect_context" =>
        \E n \in 0..arg :
            /\ \A i \in (arg - n + 1)..arg : IsWordChar(host[i])
            /\ n < arg => ~IsWordChar(host[arg - n])
            /\ ret.prefix = SubSeq(host, arg - n + 1, arg)
            /\ ret.context \in {"MemberAccess", "Identifier"}
            /\ ret.context = "MemberAccess"
               <=> \E j \in 1..(arg - n) :
                      /\ host[j] = 46
                      /\ \A i \in (j + 1)..(arg - n) : host[i] \in {32, 9, 10, 13}

\* "a. _" with the cursor at its end: the prefix is _, after a dot and a space.
C28_Witness ==
    /\ op = "detect_context"
    /\ host = <<97, 46, 32, 95>>
    /\ arg = 4
    /\ ret = [context |-> "MemberAccess", prefix |-> <<95>>]


-----------------------------------------------------------------------------
(* The tokens of a host document and the host images of their spans.        *)

\* The token over the host image of the span of a token of a region.
HostImage(mapper, token) ==
    [token EXCEPT !.start = to_host(mapper, token.start),
                  !.length = to_host(mapper, token.start + token.length)
                             - to_host(mapper, token.start)]

\* C29: in a host document every token of the walk of a region is handed to the
\* encoding over the host image of its span in the expression: it starts at
\* to_host(start) and is to_host(end) - to_host(start) long, also when the span
\* holds decoded escape sequences.
C29_HostImage ==
    op = "tokens_for_proto" =>
        \A k \in 1..Len(ret.walked) :
            \A i \in 1..Len(ret.walked[k].tokens) :
                \E j \in 1..Len(ret.sorted) :
                    ret.sorted[j] = HostImage(ret.walked[k].mapper, ret.walked[k].tokens[i])


-----------------------------------------------------------------------------
(* The handlers of did_change and did_close as tasks that yield where they  *)
(* await the publication (lib.rs).  arg holds the tasks the server runs.    *)

Task(method, uri, content_changes, version) ==
    [method |-> method, uri |-> uri, content_changes |-> content_changes,
     version |-> version, pc |-> "start", state |-> None]

\* The messages the editor sends for a document it has opened: a change or
\* two, with or without a text, then the close.
TasksFor(uri) ==
    {<<Task("did_change", uri, c, 2), Task("did_close", uri, <<>>, 3)>> :
        c \in {<<>>} \cup {<<t>> : t \in TextsOf(uri)}}
    \cup {<<Task("did_change", uri, <<t>>, 2), Task("did_change", uri, <<u>>, 3),
            Task("did_close", uri, <<>>, 4)>> : t \in TextsOf(uri), u \in TextsOf(uri)}

\* The editor has opened one document and the handler of did_open has returned;
\* the messages that follow have been received and none of their handlers has
\* started.
InitTasks ==
    /\ \E uri \in Uris : \E text \in TextsOf(uri) : \E tasks \in TasksFor(uri) :
       \E opened \in {open([u \in Uris |-> None], <<>>, uri, text, 1)} :
          /\ documents = opened.documents
          /\ heap = opened.heap
          /\ published = <<publish_diagnostics_for(uri, opened.heap[opened.state])>>
          /\ sent = <<[method |-> "did_open", uri |-> uri, content_changes |-> <<text>>,
                       version |-> 1]>>
                    \o [i \in 1..Len(tasks) |->
                           [method |-> tasks[i].method, uri |-> tasks[i].uri,
                            content_changes |-> tasks[i].content_changes,
                            version |-> tasks[i].version]]
          /\ arg = tasks
    /\ reader = [status |-> "idle"]
    /\ host = <<>>
    /\ regions = <<>>
    /\ op = "new"
    /\ ret = None
    /\ walk = NoWalk
    /\ index = LineIndexNew(<<>>)

\* Backend::did_change up to the await of the publication: without a content
\* change the handler returns, else on_document_change opens the document.
ChangeOpen ==
    /\ \E i \in 1..Len(arg) :
          /\ arg[i].method = "did_change"
          /\ arg[i].pc = "start"
          /\ IF arg[i].content_changes = <<>>
             THEN /\ arg' = [arg EXCEPT ![i].pc = "done"]
                  /\ UNCHANGED <<documents, heap>>
             ELSE \E opened \in {open(documents, heap, arg[i].uri,
                                      arg[i].content_changes[1], arg[i].version)} :
                     /\ documents' = opened.documents
                     /\ heap' = opened.heap
                     /\ arg' = [arg EXCEPT ![i].pc = "publish", ![i].state = opened.state]
    /\ op' = "did_change"
    /\ UNCHANGED <<published, reader, sent>>
    /\ UNCHANGED <<host, regions, ret, walk, index>>

\* Backend::did_change from the await on: the diagnostics of the state open
\* returned are published.
ChangePublish ==
    /\ \E i \in 1..Len(arg) :
          /\ arg[i].method = "did_change"
          /\ arg[i].pc = "publish"
          /\ published' = Append(published,
                                 publish_diagnostics_for(arg[i].uri, heap[arg[i].state]))
          /\ arg' = [arg EXCEPT ![i].pc = "done"]
    /\ op' = "publish_diagnostics_for"
    /\ UNCHANGED <<documents, heap, reader, sent>>
    /\ UNCHANGED <<host, regions, ret, walk, index>>

\* Backend::did_close up to the await of the publication: the entry is removed.
CloseRemove ==
    /\ \E i \in 1..Len(arg) :
          /\ arg[i].method = "did_close"
          /\ arg[i].pc = "start"
          /\ documents' = close(documents, arg[i].uri)
          /\ arg' = [arg EXCEPT ![i].pc = "publish"]
    /\ op' = "did_close"
    /\ UNCHANGED <<heap, published, reader, sent>>
    /\ UNCHANGED <<host, regions, ret, walk, index>>

\* Backend::did_close from the await on: the empty list is published.
ClosePublish ==
    /\ \E i \in 1..Len(arg) :
          /\ arg[i].method = "did_close"
          /\ arg[i].pc = "publish"
          /\ published' = Append(published, [uri |-> arg[i].uri, diagnostics |-> <<>>,
                                              version |-> None])
          /\ arg' = [arg EXCEPT ![i].pc = "done"]
    /\ op' = "publish_diagnostics"
    /\ UNCHANGED <<documents, heap, reader, sent>>
    /\ UNCHANGED <<host, regions, ret, walk, index>>

NextTasks == ChangeOpen \/ ChangePublish \/ CloseRemove \/ ClosePublish

SpecTasks == InitTasks /\ [][NextTasks]_vars

\* C30: once did_close has published the empty list for a document, nothing is
\* published for it any more and the store has no entry for it, whatever the
\* handlers of did_change for the document do that were suspended at their
\* publication, or had not started, when the document was closed.  (No did_open
\* follows the close here.)
C30_ClosedStaysClosed ==
    \A k \in 1..Len(published) :
        published[k].version = None =>
            /\ \A j \in (k + 1)..Len(published) : published[j].uri # published[k].uri
            /\ get(documents, published[k].uri) = None

====
